---- MODULE Spec2Model ----
(***************************************************************************)
(* Model of the vscode-changesets extension (src/extension.js, the second  *)
(* revision of the file, lines 379-985): the path guard, the input         *)
(* validators, and the three changeset workflows (manual, AI, empty).      *)
(*                                                                         *)
(* JavaScript strings are sequences of one-character strings, so that      *)
(* startsWith, trim, length and the regular expressions work on the        *)
(* characters as the code does.  A JavaScript value is a record            *)
(* [t |-> <typeof tag>, s |-> <characters>].                               *)
(***************************************************************************)
EXTENDS Integers, Sequences, FiniteSets, TLC

VARIABLES
    call,      \* the pure function applied last, with its inputs and result
    processCwd, \* process.cwd()
    run,       \* per workflow run: its position and its local values
    secrets,   \* the value secret storage holds under geminiApiKey
    fs,        \* the paths that exist under the workspace's .changeset
    started    \* workflow runs started so far

vars == <<call, processCwd, run, secrets, fs, started>>

----------------------------------------------------------------------------
(* Bounds of the enumerated inputs *)

\* longest enumerated candidate path, in characters
MaxPathLen == 5
\* longest enumerated package name, in characters
MaxNameEnum == 3

----------------------------------------------------------------------------
(* Characters and JavaScript values *)

LowerSeq == <<"a","b","c","d","e","f","g","h","i","j","k","l","m",
              "n","o","p","q","r","s","t","u","v","w","x","y","z">>
UpperSeq == <<"A","B","C","D","E","F","G","H","I","J","K","L","M",
              "N","O","P","Q","R","S","T","U","V","W","X","Y","Z">>
Digits == {"0","1","2","3","4","5","6","7","8","9"}
Letters == {LowerSeq[i] : i \in 1..26} \cup {UpperSeq[i] : i \in 1..26}
Alnum == Letters \cup Digits

Rep(c, n) == [i \in 1..n |-> c]
StringsUpTo(alphabet, n) == UNION {[1..k -> alphabet] : k \in 0..n}

Str(s) == [t |-> "string", s |-> s]
JNull == [t |-> "null", s |-> <<>>]
JUndefined == [t |-> "undefined", s |-> <<>>]
JNumber42 == [t |-> "number", s |-> <<"4","2">>]
JNumber0 == [t |-> "number", s |-> <<"0">>]
JObject == [t |-> "object", s |-> <<>>]
\* an array holding the one string s: typeof is "object"
JArrayOf(s) == [t |-> "object", s |-> s]

\* JavaScript truthiness: the value is not null, undefined, 0 or ""
Truthy(v) ==
    CASE v.t = "null" -> FALSE
      [] v.t = "undefined" -> FALSE
      [] v.t = "number" -> v.s # <<"0">>
      [] v.t = "string" -> v.s # <<>>
      [] OTHER -> TRUE

IsString(v) == v.t = "string"

\* String.prototype.startsWith
StartsWith(s, prefix) ==
    /\ Len(prefix) <= Len(s)
    /\ \A i \in 1..Len(prefix) : s[i] = prefix[i]

----------------------------------------------------------------------------
(* Node's path module (posix), as used by validateAndSanitizePath *)

IndexOfSep(s) ==
    IF \E i \in 1..Len(s) : s[i] = "/"
    THEN CHOOSE i \in 1..Len(s) : s[i] = "/" /\ \A j \in 1..(i-1) : s[j] # "/"
    ELSE 0

RECURSIVE Split(_)
Split(s) ==
    LET i == IndexOfSep(s) IN
    IF i = 0 THEN <<s>>
    ELSE <<SubSeq(s, 1, i-1)>> \o Split(SubSeq(s, i+1, Len(s)))

RECURSIVE Join(_)
Join(segs) ==
    IF segs = <<>> THEN <<>>
    ELSE IF Len(segs) = 1 THEN segs[1]
    ELSE segs[1] \o <<"/">> \o Join(Tail(segs))

\* normalizeString: drops empty and "." segments, resolves ".." against the
\* segment before it; above the start ".." is kept (allowAboveRoot) or dropped
RECURSIVE NormalizeSegs(_, _, _)
NormalizeSegs(segs, acc, allowAboveRoot) ==
    IF segs = <<>> THEN acc
    ELSE LET h == Head(segs)
             t == Tail(segs) IN
         IF h = <<>> \/ h = <<".">> THEN NormalizeSegs(t, acc, allowAboveRoot)
         ELSE IF h = <<".", ".">> THEN
             IF acc # <<>> /\ acc[Len(acc)] # <<".", ".">>
             THEN NormalizeSegs(t, SubSeq(acc, 1, Len(acc)-1), allowAboveRoot)
             ELSE IF allowAboveRoot
                  THEN NormalizeSegs(t, Append(acc, h), allowAboveRoot)
                  ELSE NormalizeSegs(t, acc, allowAboveRoot)
         ELSE NormalizeSegs(t, Append(acc, h), allowAboveRoot)

IsAbsolute(p) == Len(p) > 0 /\ p[1] = "/"

\* path.normalize
PathNormalize(p) ==
    IF Len(p) = 0 THEN <<".">>
    ELSE LET abs == IsAbsolute(p)
             trail == p[Len(p)] = "/"
             body == Join(NormalizeSegs(Split(p), <<>>, ~abs)) IN
         IF body = <<>>
         THEN (IF abs THEN <<"/">> ELSE IF trail THEN <<".", "/">> ELSE <<".">>)
         ELSE (IF abs THEN <<"/">> ELSE <<>>) \o body
              \o (IF trail THEN <<"/">> ELSE <<>>)

\* the right-to-left accumulation of path.resolve: arguments are prepended
\* until an absolute one is met; empty arguments are skipped
RECURSIVE ResolveAcc(_, _)
ResolveAcc(args, acc) ==
    IF IsAbsolute(acc) \/ args = <<>> THEN acc
    ELSE LET a == args[Len(args)]
             rest == SubSeq(args, 1, Len(args)-1) IN
         IF Len(a) = 0 THEN ResolveAcc(rest, acc)
         ELSE ResolveAcc(rest, a \o <<"/">> \o acc)

\* path.resolve(...args) with process.cwd() = cwd (an absolute path)
PathResolve(cwd, args) ==
    LET raw == ResolveAcc(<<cwd>> \o args, <<>>)
        body == Join(NormalizeSegs(Split(raw), <<>>, FALSE)) IN
    <<"/">> \o body

\* path.join(a, b): normalize(a + "/" + b)
PathJoin(a, b) == PathNormalize(a \o <<"/">> \o b)

----------------------------------------------------------------------------
(* validateAndSanitizePath *)

validateAndSanitizePath(cwd, inputPath, basePath) ==
    IF ~Truthy(inputPath) \/ ~IsString(inputPath) THEN JNull
    ELSE LET normalizedPath == PathNormalize(inputPath.s)
             resolvedPath == PathResolve(cwd, <<basePath, normalizedPath>>) IN
         IF ~StartsWith(resolvedPath, PathResolve(cwd, <<basePath>>))
         THEN JNull
         ELSE Str(resolvedPath)

----------------------------------------------------------------------------
(* Input validators *)

PackageNameLead == Alnum \cup {"@"}
PackageNameRest == Alnum \cup {"@", ".", "_", "-"}
MaxPackageNameLength == 214

\* /^[a-zA-Z0-9@][a-zA-Z0-9@._-]*$/.test(s)
packageNameRegex(s) ==
    /\ Len(s) >= 1
    /\ s[1] \in PackageNameLead
    /\ \A i \in 2..Len(s) : s[i] \in PackageNameRest

\* the validator without its length ceiling
isValidPackageName_NoLengthCheck(packageName) ==
    IF ~Truthy(packageName) \/ ~IsString(packageName) THEN FALSE
    ELSE packageNameRegex(packageName.s)

isValidPackageName(packageName) ==
    IF ~Truthy(packageName) \/ ~IsString(packageName) THEN FALSE
    ELSE packageNameRegex(packageName.s)
         /\ Len(packageName.s) <= MaxPackageNameLength

major == <<"m","a","j","o","r">>
minor == <<"m","i","n","o","r">>
patch == <<"p","a","t","c","h">>
validBumpTypes == <<Str(major), Str(minor), Str(patch)>>

ToLower(c) ==
    IF \E i \in 1..26 : UpperSeq[i] = c
    THEN LowerSeq[CHOOSE i \in 1..26 : UpperSeq[i] = c]
    ELSE c

\* the validator comparing without regard to case
isValidBumpType_IgnoreCase(bumpType) ==
    \E i \in 1..Len(validBumpTypes) :
        validBumpTypes[i] = [bumpType EXCEPT !.s = [k \in 1..Len(@) |-> ToLower(@[k])]]

\* Array.prototype.includes: same type and same value
isValidBumpType(bumpType) ==
    \E i \in 1..Len(validBumpTypes) : validBumpTypes[i] = bumpType

\* String.prototype.trim
Whitespace == {" ", "\t", "\n", "\r"}
RECURSIVE TrimStart(_)
TrimStart(s) ==
    IF s # <<>> /\ s[1] \in Whitespace THEN TrimStart(Tail(s)) ELSE s
RECURSIVE TrimEnd(_)
TrimEnd(s) ==
    IF s # <<>> /\ s[Len(s)] \in Whitespace
    THEN TrimEnd(SubSeq(s, 1, Len(s)-1)) ELSE s
Trim(s) == TrimEnd(TrimStart(s))

MinApiKeyLength == 20
MaxApiKeyLength == 100

\* /^[A-Za-z0-9]{20,100}$/.test(s)
apiKeyRegex(s) ==
    /\ Len(s) >= MinApiKeyLength
    /\ Len(s) <= MaxApiKeyLength
    /\ \A i \in 1..Len(s) : s[i] \in Alnum

\* the validator with no test of the key at all
isValidApiKey_AcceptAll(apiKey) == Truthy(apiKey) /\ IsString(apiKey)

isValidApiKey(apiKey) ==
    IF ~Truthy(apiKey) \/ ~IsString(apiKey) THEN FALSE
    ELSE LET trimmedKey == Trim(apiKey.s) IN apiKeyRegex(trimmedKey)

\* String(value) of a value that is not a string
ToStringJS(v) ==
    CASE v.t = "number" -> v.s
      [] v.t = "null" -> <<"n","u","l","l">>
      [] v.t = "undefined" -> <<"u","n","d","e","f","i","n","e","d">>
      [] OTHER -> v.s

\* no character is replaced
EscapeChar_Identity(c) == <<c>>

EscapeChar(c) ==
    CASE c = "\"" -> <<"\\", "\"">>
      [] c = "\n" -> <<"\\", "n">>
      [] c = "\r" -> <<"\\", "r">>
      [] OTHER -> <<c>>

\* the three replace(/./g, ...) calls, character by character (no replacement
\* produces a character that a later one replaces)
RECURSIVE EscapeChars(_)
EscapeChars(s) ==
    IF Len(s) = 0 THEN <<>>
    ELSE IF Len(s) = 1 THEN EscapeChar(s[1])
    ELSE LET half == Len(s) \div 2 IN
         EscapeChars(SubSeq(s, 1, half)) \o EscapeChars(SubSeq(s, half + 1, Len(s)))

escapeYamlValue(value) ==
    IF ~IsString(value) THEN ToStringJS(value) ELSE EscapeChars(value.s)

----------------------------------------------------------------------------
(* generateSecureRandomId *)

DigitSeq == <<"0","1","2","3","4","5","6","7","8","9">>
Base64Alphabet == UpperSeq \o LowerSeq \o DigitSeq \o <<"+", "/">>
B64(n) == Base64Alphabet[n + 1]

\* Buffer.prototype.toString('base64')
RECURSIVE Base64(_)
Base64(b) ==
    IF Len(b) = 0 THEN <<>>
    ELSE IF Len(b) = 1 THEN
        <<B64(b[1] \div 4), B64((b[1] % 4) * 16), "=", "=">>
    ELSE IF Len(b) = 2 THEN
        <<B64(b[1] \div 4), B64((b[1] % 4) * 16 + b[2] \div 16),
          B64((b[2] % 16) * 4), "=">>
    ELSE <<B64(b[1] \div 4), B64((b[1] % 4) * 16 + b[2] \div 16),
           B64((b[2] % 16) * 4 + b[3] \div 64), B64(b[3] % 64)>>
         \o Base64(SubSeq(b, 4, Len(b)))

IsAlnumChar(c) == c \in Alnum
DefaultIdLength == 5
\* Math.ceil(length * 0.75)
RandomByteCount(length) == (length * 3 + 3) \div 4

\* randomBytes is the outcome of crypto.randomBytes(RandomByteCount(length))
generateSecureRandomId(randomBytes, length) ==
    LET stripped == SelectSeq(Base64(randomBytes), IsAlnumChar) IN
    SubSeq(stripped, 1, IF Len(stripped) < length THEN Len(stripped) ELSE length)

----------------------------------------------------------------------------
(* findPackages *)

\* path.dirname of a path holding a separator
Dirname(p) ==
    LET idx == {i \in 1..Len(p) : p[i] = "/"} IN
    IF idx = {} THEN <<".">>
    ELSE LET last == CHOOSE i \in idx : \A j \in idx : j <= i IN
         IF last = 1 THEN <<"/">> ELSE SubSeq(p, 1, last - 1)

PackageJson == <<"p","a","c","k","a","g","e",".","j","s","o","n">>
MaxPackageJsonFiles == 1000

Thrown(message, detail) == [ok |-> FALSE, error |-> message, detail |-> detail]

\* the manifest's declared package is kept
ManifestUsable(m) ==
    /\ m.parses
    /\ Truthy(m.name)
    /\ ~m.private
    /\ isValidPackageName(m.name)

\* the loop over the enumerated manifests: the packages pushed, in
\* enumeration order
ScanManifests(cwd, validatedRootPath, manifests) ==
    LET Validated(m) ==
            validateAndSanitizePath(cwd, Str(Dirname(m.fsPath)), validatedRootPath)
        Kept(m) == ManifestUsable(m) /\ Validated(m) # JNull
        kept == SelectSeq(manifests, Kept) IN
    [i \in 1..Len(kept) |-> [name |-> kept[i].name.s, path |-> Validated(kept[i]).s]]

\* the root manifest's package goes first unless its name is already there
WithRootPackage(validatedRootPath, packages, json) ==
    IF /\ ManifestUsable(json)
       /\ ~\E i \in 1..Len(packages) : packages[i].name = json.name.s
    THEN <<[name |-> json.name.s, path |-> validatedRootPath]>> \o packages
    ELSE packages

\* the part of findPackages after the loop: <root>/package.json, when it
\* exists, is read again
AfterScan(validatedRootPath, manifests, packages, rootPackageJsonPath) ==
    IF \E i \in 1..Len(manifests) : manifests[i].fsPath = rootPackageJsonPath
    THEN WithRootPackage(validatedRootPath, packages,
             manifests[CHOOSE i \in 1..Len(manifests) :
                           manifests[i].fsPath = rootPackageJsonPath])
    ELSE packages

\* the ceiling already reached by 1000 files
FindPackagesIn_CapAt999(cwd, validated, manifests) ==
    IF validated = JNull THEN Thrown("Invalid root path", <<>>)
    ELSE IF Len(manifests) >= MaxPackageJsonFiles
    THEN Thrown("Too many package.json files found. Please check your workspace structure.", <<>>)
    ELSE [ok |-> TRUE,
          packages |-> AfterScan(validated.s, manifests,
                           ScanManifests(cwd, validated.s, manifests),
                           PathJoin(validated.s, PackageJson))]

FindPackagesIn(cwd, validated, manifests) ==
    IF validated = JNull THEN Thrown("Invalid root path", <<>>)
    ELSE IF Len(manifests) > MaxPackageJsonFiles
    THEN Thrown("Too many package.json files found. Please check your workspace structure.", <<>>)
    ELSE [ok |-> TRUE,
          packages |-> AfterScan(validated.s, manifests,
                           ScanManifests(cwd, validated.s, manifests),
                           PathJoin(validated.s, PackageJson))]

\* manifests: what findFiles returned, in its order, each with what reading
\* and parsing it gives
findPackages(cwd, rootPath, manifests) ==
    FindPackagesIn(cwd, validateAndSanitizePath(cwd, Str(rootPath), cwd), manifests)

\* The path checks and the file system calls of the loop, in the order the
\* code makes them: each manifest is read, and the directory of a usable one
\* is then checked against the root.
RECURSIVE ScanIO(_, _, _)
ScanIO(cwd, validatedRootPath, manifests) ==
    IF Len(manifests) = 0 THEN <<>>
    ELSE IF Len(manifests) = 1
    THEN <<[op |-> "readFile", path |-> manifests[1].fsPath, ok |-> TRUE]>>
         \o (IF ManifestUsable(manifests[1])
             THEN <<[op |-> "validateAndSanitizePath",
                     path |-> Dirname(manifests[1].fsPath),
                     ok |-> validateAndSanitizePath(cwd,
                                Str(Dirname(manifests[1].fsPath)),
                                validatedRootPath) # JNull]>>
             ELSE <<>>)
    ELSE LET half == Len(manifests) \div 2 IN
         ScanIO(cwd, validatedRootPath, SubSeq(manifests, 1, half))
         \o ScanIO(cwd, validatedRootPath, SubSeq(manifests, half + 1, Len(manifests)))

\* the path checks and file system calls of one findPackages call
FindPackagesIO(cwd, rootPath, manifests) ==
    LET validated == validateAndSanitizePath(cwd, Str(rootPath), cwd)
        first == <<[op |-> "validateAndSanitizePath", path |-> rootPath,
                    ok |-> validated # JNull]>> IN
    IF validated = JNull \/ Len(manifests) > MaxPackageJsonFiles THEN first
    ELSE first \o ScanIO(cwd, validated.s, manifests)
         \o <<[op |-> "existsSync", path |-> PathJoin(validated.s, PackageJson),
               ok |-> TRUE]>>
         \o (IF \E i \in 1..Len(manifests) :
                    manifests[i].fsPath = PathJoin(validated.s, PackageJson)
             THEN <<[op |-> "readFileSync",
                     path |-> PathJoin(validated.s, PackageJson), ok |-> TRUE]>>
             ELSE <<>>)

\* how many of the enumerated manifests the loop has read when findPackages
\* returns or throws
ManifestsRead(found, manifests) == IF found.ok THEN Len(manifests) ELSE 0

----------------------------------------------------------------------------
(* getStagedGitDiff *)

MaxBuffer == 10485760

\* the promise rejected whenever the callback got an error
getStagedGitDiff_RejectOnError(cwd, rootPath, outcome) ==
    IF validateAndSanitizePath(cwd, Str(rootPath), cwd) = JNull
    THEN Thrown("Invalid working directory", <<>>)
    ELSE IF outcome.error
    THEN Thrown("Failed to get staged changes", <<>>)
    ELSE [ok |-> TRUE, stdoutLen |-> outcome.stdoutLen, fullLen |-> outcome.fullLen]

\* An outcome of exec('git diff --staged'): whether the callback got an error,
\* how many characters of output it was handed (stdoutLen) and how many the
\* tool had to say in all (fullLen).  The promise resolves with the output
\* handed over or rejects.
getStagedGitDiff(cwd, rootPath, outcome) ==
    LET validatedCwd == validateAndSanitizePath(cwd, Str(rootPath), cwd) IN
    IF validatedCwd = JNull THEN Thrown("Invalid working directory", <<>>)
    ELSE IF outcome.error /\ outcome.stdoutLen = 0
    THEN Thrown("Failed to get staged changes", <<>>)
    ELSE IF outcome.stdoutLen # 0 /\ outcome.stdoutLen > MaxBuffer
    THEN Thrown("Git diff is too large (over 10MB). Please commit your changes in smaller chunks.", <<>>)
    ELSE [ok |-> TRUE, stdoutLen |-> outcome.stdoutLen, fullLen |-> outcome.fullLen]

----------------------------------------------------------------------------
(* Validation of the parsed AI reply *)

MaxSummaryLength == 1000

\* A parsed reply: bumps is absent (present = FALSE) or an object whose
\* entries, in iteration order, are [k |-> key characters, v |-> value];
\* summary is a JavaScript value, undefined when the key is absent.
Accepted(parsed) == [ok |-> TRUE, error |-> "", detail |-> <<>>, value |-> parsed]
Rejected(message, detail) ==
    [ok |-> FALSE, error |-> message, detail |-> detail, value |-> <<>>]

\* the length test taking 1000 characters for too long already
SummaryTooLong_OffByOne(summary) ==
    IsString(summary) /\ Len(summary.s) >= MaxSummaryLength

\* summary.length > 1000
SummaryTooLong(summary) == IsString(summary) /\ Len(summary.s) > MaxSummaryLength

\* the loop testing every name before any bump
CheckEntries_NamesFirst(entries) ==
    IF \E i \in 1..Len(entries) : ~isValidPackageName(Str(entries[i].k))
    THEN LET i == CHOOSE i \in 1..Len(entries) :
                    /\ ~isValidPackageName(Str(entries[i].k))
                    /\ \A j \in 1..(i-1) : isValidPackageName(Str(entries[j].k)) IN
         Rejected("Invalid package name in AI response: ${pkg}", entries[i].k)
    ELSE IF \E i \in 1..Len(entries) : ~isValidBumpType(entries[i].v)
    THEN LET i == CHOOSE i \in 1..Len(entries) :
                    /\ ~isValidBumpType(entries[i].v)
                    /\ \A j \in 1..(i-1) : isValidBumpType(entries[j].v) IN
         Rejected("Invalid bump type in AI response: ${bump}", escapeYamlValue(entries[i].v))
    ELSE Accepted(<<>>)

\* the loop without the test of the bump
RECURSIVE CheckEntries_NoBumpCheck(_)
CheckEntries_NoBumpCheck(entries) ==
    IF entries = <<>> THEN Accepted(<<>>)
    ELSE LET e == Head(entries) IN
         IF ~isValidPackageName(Str(e.k))
         THEN Rejected("Invalid package name in AI response: ${pkg}", e.k)
         ELSE CheckEntries_NoBumpCheck(Tail(entries))

\* the for loop over Object.entries(parsedResponse.bumps): the first entry
\* that fails, its name tested before its bump
RECURSIVE CheckEntries(_)
CheckEntries(entries) ==
    IF entries = <<>> THEN Accepted(<<>>)
    ELSE LET e == Head(entries) IN
         IF ~isValidPackageName(Str(e.k))
         THEN Rejected("Invalid package name in AI response: ${pkg}", e.k)
         ELSE IF ~isValidBumpType(e.v)
         THEN Rejected("Invalid bump type in AI response: ${bump}", escapeYamlValue(e.v))
         ELSE CheckEntries(Tail(entries))

validateParsedResponse(parsedResponse) ==
    IF ~parsedResponse.bumps.present \/ ~Truthy(parsedResponse.summary)
    THEN Rejected("Invalid AI response structure: missing bumps or summary", <<>>)
    ELSE LET loop == CheckEntries(parsedResponse.bumps.entries) IN
         IF ~loop.ok THEN loop
         ELSE IF SummaryTooLong(parsedResponse.summary)
         THEN Rejected("AI generated summary is too long", <<>>)
         ELSE Accepted(parsedResponse)

----------------------------------------------------------------------------
(* createChangesetFile *)

ChangesetDirName == <<".","c","h","a","n","g","e","s","e","t">>
FilePrefix == <<"c","h","a","n","g","e","s","e","t","-">>
FileSuffix_Txt == <<".","t","x","t">>
FileSuffix == <<".","m","d">>
Delimiter == <<"-","-","-">>

\* the metadata lines emitted without testing the name and the bump again
RECURSIVE PackageLines_NoRecheck(_)
PackageLines_NoRecheck(entries) ==
    IF entries = <<>> THEN [ok |-> TRUE, error |-> "", detail |-> <<>>, text |-> <<>>]
    ELSE LET e == Head(entries)
             rest == PackageLines_NoRecheck(Tail(entries)) IN
         [rest EXCEPT !.text =
             <<"\"">> \o escapeYamlValue(Str(e.k)) \o <<"\"", ":", " ">>
             \o escapeYamlValue(e.v) \o <<"\n">> \o @]

\* the metadata lines, one per entry of Object.entries(packagesWithBumps)
RECURSIVE PackageLines(_)
PackageLines(entries) ==
    IF entries = <<>> THEN [ok |-> TRUE, error |-> "", detail |-> <<>>, text |-> <<>>]
    ELSE LET e == Head(entries) IN
         IF ~isValidPackageName(Str(e.k))
         THEN [ok |-> FALSE, error |-> "Invalid package name: ${pkg}",
               detail |-> e.k, text |-> <<>>]
         ELSE IF ~isValidBumpType(e.v)
         THEN [ok |-> FALSE, error |-> "Invalid bump type: ${bump}",
               detail |-> escapeYamlValue(e.v), text |-> <<>>]
         ELSE LET rest == PackageLines(Tail(entries)) IN
              IF ~rest.ok THEN rest
              ELSE [rest EXCEPT !.text =
                        <<"\"">> \o escapeYamlValue(Str(e.k)) \o <<"\"", ":", " ">>
                        \o escapeYamlValue(e.v) \o <<"\n">> \o @]

CreateFailed(message, detail, mkdir, dir) ==
    [ok |-> FALSE, error |-> message, detail |-> detail, mkdir |-> mkdir,
     dir |-> dir, filePath |-> <<>>, content |-> <<>>]

\* the content built with the summary right after the closing delimiter
WriteContent_NoBlankLine(validatedDir, mkdir, validatedFilePath, lines, summary) ==
    IF ~lines.ok THEN CreateFailed(lines.error, lines.detail, mkdir, validatedDir)
    ELSE [ok |-> TRUE, error |-> "", detail |-> <<>>, mkdir |-> mkdir,
          dir |-> validatedDir, filePath |-> validatedFilePath,
          content |-> Delimiter \o <<"\n">> \o lines.text \o Delimiter
                      \o <<"\n">>
                      \o escapeYamlValue(IF Truthy(summary) THEN summary ELSE Str(<<>>))
                      \o <<"\n">>]

\* the content is built and written
WriteContent(validatedDir, mkdir, validatedFilePath, lines, summary) ==
    IF ~lines.ok THEN CreateFailed(lines.error, lines.detail, mkdir, validatedDir)
    ELSE [ok |-> TRUE, error |-> "", detail |-> <<>>, mkdir |-> mkdir,
          dir |-> validatedDir, filePath |-> validatedFilePath,
          content |-> Delimiter \o <<"\n">> \o lines.text \o Delimiter
                      \o <<"\n", "\n">>
                      \o escapeYamlValue(IF Truthy(summary) THEN summary ELSE Str(<<>>))
                      \o <<"\n">>]

InFile(validatedDir, mkdir, validatedFilePath, packagesWithBumps, summary) ==
    IF validatedFilePath = JNull
    THEN CreateFailed("Invalid file path", <<>>, mkdir, validatedDir)
    ELSE WriteContent(validatedDir, mkdir, validatedFilePath.s,
                      PackageLines(packagesWithBumps), summary)

\* the directory is created when it is not there, and the file is named
InDir(cwd, validatedChangesetDir, packagesWithBumps, summary, randomId, existing) ==
    IF validatedChangesetDir = JNull
    THEN CreateFailed("Invalid changeset directory path", <<>>, FALSE, <<>>)
    ELSE InFile(validatedChangesetDir.s, validatedChangesetDir.s \notin existing,
                validateAndSanitizePath(cwd,
                    Str(PathJoin(validatedChangesetDir.s,
                                 FilePrefix \o randomId \o FileSuffix)),
                    validatedChangesetDir.s),
                packagesWithBumps, summary)

InRoot(cwd, validatedRootPath, packagesWithBumps, summary, randomId, existing) ==
    IF validatedRootPath = JNull THEN CreateFailed("Invalid root path", <<>>, FALSE, <<>>)
    ELSE InDir(cwd,
               validateAndSanitizePath(cwd,
                   Str(PathJoin(validatedRootPath.s, ChangesetDirName)),
                   validatedRootPath.s),
               packagesWithBumps, summary, randomId, existing)

\* What one call does: it throws (ok = FALSE), or it writes content to
\* filePath; either way the directory is created first when it was not there
\* (mkdir).  existing is the set of paths on disk, randomBytes the outcome of
\* the random source.
createChangesetFile(cwd, rootPath, packagesWithBumps, summary, randomBytes, existing) ==
    InRoot(cwd, validateAndSanitizePath(cwd, Str(rootPath), cwd),
           packagesWithBumps, summary,
           generateSecureRandomId(randomBytes, DefaultIdLength), existing)

----------------------------------------------------------------------------
(* Inputs of the pure functions *)

EtcPasswd == <<".",".","/",".",".","/","e","t","c","/","p","a","s","s","w","d">>
CandidatePaths ==
    {Str(s) : s \in StringsUpTo({"/", ".", "a"}, MaxPathLen)}
    \cup {Str(EtcPasswd), JNull, JUndefined, JNumber42, JObject}
BasePaths == {<<"/">>, <<"/","a">>, <<"/","a","/","a">>, <<"a">>, <<>>, <<"/","w","o","r","k">>}
Cwds == {<<"/">>, <<"/","a">>}

ScopePkgName == <<"@","s","c","o","p","e","/","p","k","g","-","n","a","m","e">>
DotDotEvil == <<".",".","/","e","v","i","l">>
PkgSpaceName == <<"p","k","g"," ","n","a","m","e">>
CandidateNames ==
    {Str(s) : s \in StringsUpTo({"a", "@", "/", ".", "-", " "}, MaxNameEnum)}
    \cup {Str(ScopePkgName), Str(DotDotEvil), Str(PkgSpaceName)}
    \cup {Str(Rep("a", n)) : n \in (MaxPackageNameLength-1)..(MaxPackageNameLength+2)}
    \cup {Str(<<"@">> \o Rep("-", MaxPackageNameLength-1)),
          Str(<<"@">> \o Rep("_", MaxPackageNameLength))}
    \cup {JNull, JUndefined, JNumber42, JNumber0, JObject}

MAJOR == <<"M","A","J","O","R">>
huge == <<"h","u","g","e">>
CandidateBumps ==
    {Str(major), Str(minor), Str(patch), Str(MAJOR), Str(huge), Str(<<>>),
     Str(<<"M","i","n","o","r">>), Str(<<"p","a","t","c","h"," ">>),
     JArrayOf(major), JNull, JUndefined, JNumber42, JObject}

----------------------------------------------------------------------------
(* One application of a pure function to inputs drawn from the sets above *)

NoCall == [op |-> "none", cwd |-> <<>>, arg |-> JNull, base |-> <<>>, ret |-> JNull]

CallValidateAndSanitizePath ==
    /\ call.op = "none"
    /\ \E c \in Cwds, p \in CandidatePaths, b \in BasePaths :
        call' = [op |-> "validateAndSanitizePath", cwd |-> c, arg |-> p,
                 base |-> b, ret |-> validateAndSanitizePath(c, p, b)]
    /\ UNCHANGED <<processCwd, run, secrets, fs, started>>

CallIsValidPackageName ==
    /\ call.op = "none"
    /\ \E n \in CandidateNames :
        call' = [op |-> "isValidPackageName", cwd |-> <<>>, arg |-> n,
                 base |-> <<>>, ret |-> isValidPackageName(n)]
    /\ UNCHANGED <<processCwd, run, secrets, fs, started>>

CallIsValidBumpType ==
    /\ call.op = "none"
    /\ \E b \in CandidateBumps :
        call' = [op |-> "isValidBumpType", cwd |-> <<>>, arg |-> b,
                 base |-> <<>>, ret |-> isValidBumpType(b)]
    /\ UNCHANGED <<processCwd, run, secrets, fs, started>>

\* the caller takes the result; the next application starts afresh
Return ==
    /\ call.op # "none"
    /\ call' = NoCall
    /\ UNCHANGED <<processCwd, run, secrets, fs, started>>

----------------------------------------------------------------------------
(* The environment of a workflow run: what the editor, the user, git and   *)
(* the AI endpoint can hand to the code                                     *)

Procs == {"p1", "p2"}
WorkflowTypes == {"manual", "ai", "empty"}

WorkspaceRoot == <<"/","w">>
NoWorkspace == <<>>
ProcessCwds == {<<"/">>, <<"/","x">>}

PkgA == <<"p","k","g","A">>
PkgB == <<"p","k","g","B">>
Manifest(dir, name) ==
    [fsPath |-> dir \o <<"/">> \o PackageJson, parses |-> TRUE,
     name |-> Str(name), private |-> FALSE]
ManifestA == Manifest(WorkspaceRoot \o <<"/","a">>, PkgA)
ManifestB == Manifest(WorkspaceRoot \o <<"/","b">>, PkgB)
PrivateManifest ==
    [fsPath |-> WorkspaceRoot \o <<"/","p","/">> \o PackageJson, parses |-> TRUE,
     name |-> Str(PkgB), private |-> TRUE]
Trees ==
    {<<>>, <<ManifestA>>, <<ManifestA, ManifestB>>,
     [i \in 1..MaxPackageJsonFiles |-> IF i = 1 THEN ManifestA ELSE PrivateManifest],
     [i \in 1..(MaxPackageJsonFiles + 1) |-> ManifestA]}

K(n) == Rep("k", n)
ApiKeyInputs ==
    {JUndefined, Str(<<>>), Str(K(10)), Str(K(MinApiKeyLength - 1)),
     Str(K(MinApiKeyLength)), Str(<<" ">> \o K(MinApiKeyLength) \o <<" ">>),
     Str(K(MaxApiKeyLength + 1)), Str(K(MinApiKeyLength) \o <<"-">>)}

GitOutcome(error, cause, stdoutLen, fullLen) ==
    [error |-> error, cause |-> cause, stdoutLen |-> stdoutLen, fullLen |-> fullLen]
GitOutcomes ==
    {GitOutcome(FALSE, "none", 0, 0),
     GitOutcome(FALSE, "none", 120, 120),
     GitOutcome(TRUE, "exit", 0, 0),
     GitOutcome(TRUE, "exit", 120, 120),
     GitOutcome(TRUE, "timeout", 0, 120),
     GitOutcome(TRUE, "timeout", 50, 120),
     GitOutcome(TRUE, "maxBuffer", MaxBuffer, MaxBuffer + 1)}
NoDiff == [ok |-> FALSE, stdoutLen |-> 0, fullLen |-> 0]

FixBug == <<"F","i","x"," ","b","u","g">>
SummaryInputs ==
    {JUndefined, Str(<<>>), Str(FixBug),
     Str(Rep("s", MaxSummaryLength)), Str(Rep("s", MaxSummaryLength + 1))}
BumpPicks == {Str(major), Str(minor), Str(patch), JUndefined}

Entry(k, v) == [k |-> k, v |-> v]
Bumps(entries) == [present |-> TRUE, entries |-> entries]
NoBumps == [present |-> FALSE, entries |-> <<>>]
Other == <<"o","t","h","e","r">>
ReplyBumps ==
    {NoBumps, Bumps(<<>>),
     Bumps(<<Entry(PkgA, Str(minor))>>),
     Bumps(<<Entry(Other, Str(patch))>>),
     Bumps(<<Entry(PkgA, Str(huge))>>),
     Bumps(<<Entry(PkgA, Str(MAJOR))>>),
     Bumps(<<Entry(PkgA, Str(minor)), Entry(PkgB, Str(huge))>>),
     Bumps(<<Entry(PkgA, Str(huge)), Entry(DotDotEvil, Str(minor))>>),
     Bumps(<<Entry(DotDotEvil, Str(minor)), Entry(PkgA, Str(huge))>>),
     Bumps(<<Entry(PkgSpaceName, JNumber42)>>)}
ParsedReplies == [bumps : ReplyBumps, summary : SummaryInputs]

\* The body of a 2xx answer: no candidate text, text that is not JSON, or
\* text that parses to one of the replies above.
NoBody == [kind |-> "none", parsed |-> [bumps |-> NoBumps, summary |-> JUndefined]]
ResponseBodies ==
    {[kind |-> "noCandidates", parsed |-> NoBody.parsed],
     [kind |-> "notJson", parsed |-> NoBody.parsed]}
    \cup {[kind |-> "json", parsed |-> r] : r \in ParsedReplies}

HttpStatuses == {200, 400, 401, 403, 404, 429, 500}
ResponseOk(status) == status >= 200 /\ status <= 299

\* the message without the status
StatusText_Blank(n) == <<>>

RECURSIVE StatusText(_)
StatusText(n) ==
    IF n < 10 THEN <<DigitSeq[n + 1]>>
    ELSE StatusText(n \div 10) \o <<DigitSeq[(n % 10) + 1]>>

\* outcomes of crypto.randomBytes(4)
RandomOutcomes == {<<0, 16, 131, 16>>, <<255, 255, 255, 255>>}

----------------------------------------------------------------------------
(* The text of the model's reply: code fences and JSON.parse *)

\* the fence marker, three grave accents; "U+0060" stands for the one
\* character, which a string of this notation cannot hold
Fence == <<"U+0060", "U+0060", "U+0060">>

\* String.prototype.replace(/pattern/g, ''): the occurrences of the pattern,
\* found from left to right, are removed
RECURSIVE RemoveAll(_, _)
RemoveAll(s, pattern) ==
    IF s = <<>> THEN <<>>
    ELSE IF StartsWith(s, pattern)
    THEN RemoveAll(SubSeq(s, Len(pattern) + 1, Len(s)), pattern)
    ELSE <<Head(s)>> \o RemoveAll(Tail(s), pattern)

\* the closing and the untagged fences left in the text
StripFences_TaggedOnly(text) ==
    Trim(RemoveAll(text, Fence \o <<"j","s","o","n">>))

\* text.replace(/[fence]json/g, '').replace(/[fence]/g, '').trim()
StripFences(text) ==
    Trim(RemoveAll(RemoveAll(text, Fence \o <<"j","s","o","n">>), Fence))

\* Replies of the model as JSON values: accepted ones, rejected ones, and
\* summaries that hold fence markers themselves, with what is left of them
\* once the markers are removed
JsonReplies ==
    {[bumps |-> Bumps(<<Entry(PkgA, Str(minor))>>), summary |-> Str(FixBug)],
     [bumps |-> Bumps(<<Entry(PkgA, Str(minor)), Entry(PkgB, Str(major))>>),
      summary |-> Str(FixBug)],
     [bumps |-> Bumps(<<>>), summary |-> Str(FixBug)],
     [bumps |-> Bumps(<<Entry(PkgA, Str(huge))>>), summary |-> Str(FixBug)],
     [bumps |-> Bumps(<<Entry(DotDotEvil, Str(minor))>>), summary |-> Str(FixBug)],
     [bumps |-> NoBumps, summary |-> Str(FixBug)],
     [bumps |-> Bumps(<<Entry(PkgA, Str(minor))>>), summary |-> JUndefined],
     [bumps |-> Bumps(<<Entry(PkgA, Str(patch))>>),
      summary |-> Str(<<"U","s","e"," ">> \o Fence \o <<"x">> \o Fence)],
     [bumps |-> Bumps(<<Entry(PkgA, Str(patch))>>),
      summary |-> Str(<<"U","s","e"," ","x">>)],
     [bumps |-> Bumps(<<Entry(PkgA, Str(patch))>>),
      summary |-> Str(<<"a">> \o Fence \o <<"j","s","o","n">>)],
     [bumps |-> Bumps(<<Entry(PkgA, Str(patch))>>), summary |-> Str(<<"a">>)]}

\* The JSON text of a reply, as JSON.stringify gives it: the keys that are
\* there, strings in double quotes (no character of the replies above needs
\* an escape)
ReplyText(reply) ==
    LET quoted(s) == <<"\"">> \o s \o <<"\"">>
        entries == reply.bumps.entries
        members[i \in 0..Len(entries)] ==
            IF i = 0 THEN <<>>
            ELSE members[i - 1] \o (IF i > 1 THEN <<",">> ELSE <<>>)
                 \o quoted(entries[i].k) \o <<":">> \o quoted(entries[i].v.s)
        bumps == IF reply.bumps.present
                 THEN quoted(<<"b","u","m","p","s">>) \o <<":", "{">>
                      \o members[Len(entries)] \o <<"}">>
                 ELSE <<>>
        summary == IF IsString(reply.summary)
                   THEN quoted(<<"s","u","m","m","a","r","y">>) \o <<":">>
                        \o quoted(reply.summary.s)
                   ELSE <<>> IN
    <<"{">> \o bumps
    \o (IF bumps # <<>> /\ summary # <<>> THEN <<",">> ELSE <<>>)
    \o summary \o <<"}">>

\* lines 696-725 on the text of the reply: the fences are stripped, the rest
\* is parsed (JSON.parse gives the reply whose JSON text it is handed and
\* throws on any other text) and the parsed reply is validated
readReplyText(text) ==
    LET jsonString == StripFences(text)
        parsed == {reply \in JsonReplies : ReplyText(reply) = jsonString} IN
    IF parsed = {}
    THEN Rejected("Invalid JSON response from AI. Please try again.", <<>>)
    ELSE validateParsedResponse(CHOOSE reply \in parsed : TRUE)

----------------------------------------------------------------------------
(* The workflow runs *)

\* Three fields of a run are kept for the record only: git, the outcome of
\* the git process of the run, dismissed, the prompt the user closed without
\* an answer ("none" while no prompt was closed), and heldAtSend, the value
\* the secret store held when the request of the run was sent.
\* how many workflow runs a behaviour starts
MaxRuns == 2

Ev(e, via, m, d) == [e |-> e, via |-> via, m |-> m, d |-> d]
ShowError(via, m, d) == Ev("showErrorMessage", via, m, d)
ShowInfo(m) == Ev("showInformationMessage", "", m, <<>>)
ConsoleError(via, m, d) == Ev("console.error", via, m, d)

Cancelled == ShowInfo("Changeset creation cancelled.")

IdleRun ==
    [pc |-> "idle", type |-> "none", root |-> <<>>, packages |-> <<>>,
     apiKey |-> JUndefined, gitDiff |-> NoDiff, cancelRequested |-> FALSE,
     found |-> [files |-> 0, reads |-> 0], status |-> 0, reply |-> NoBody, selected |-> <<>>, bumps |-> <<>>,
     summaryInput |-> JUndefined, summary |-> JUndefined,
     git |-> GitOutcome(FALSE, "none", 0, 0), dismissed |-> "none",
     heldAtSend |-> JUndefined,
     trace |-> <<>>, written |-> <<>>]

Init ==
    /\ call = NoCall
    /\ processCwd \in ProcessCwds
    /\ run = [p \in Procs |-> IdleRun]
    /\ secrets = JUndefined
    /\ fs = {}
    /\ started = 0

Set(p, r) == run' = [run EXCEPT ![p] = r]
Log(r, events) == [r EXCEPT !.trace = @ \o events]
\* the run is over: the handler returned
Done(r, events) == [Log(r, events) EXCEPT !.pc = "done"]
\* catch (error) of runChangesetWorkflow
WorkflowCatch(r, m, d) ==
    Done(r, <<ConsoleError("", m, d), ShowError("An error occurred: ", m, d)>>)
\* the error shown and the request sent again
AiCatch_Retry(r, m, d) ==
    [Log(r, <<ConsoleError("Error calling AI model:", m, d),
              ShowError("Changesets AI Error: ", m, d)>>)
     EXCEPT !.pc = "withProgress", !.cancelRequested = FALSE]

\* the credential of the run logged with the error
AiCatch_LogsKey(r, m, d) ==
    Done(r, <<ConsoleError("Error calling AI model:", m, r.apiKey.s),
              ShowError("Changesets AI Error: ", m, d)>>)

\* catch (error) of the progress callback; the suggestion is null
AiCatch(r, m, d) ==
    Done(r, <<ConsoleError("Error calling AI model:", m, d),
              ShowError("Changesets AI Error: ", m, d)>>)

\* runChangesetWorkflow up to the first await
Start(p) ==
    /\ run[p].pc = "idle"
    /\ started < MaxRuns
    /\ started' = started + 1
    /\ \E type \in WorkflowTypes, folder \in {NoWorkspace, WorkspaceRoot} :
        IF folder = NoWorkspace
        THEN Set(p, Done([run[p] EXCEPT !.type = type],
                 <<ShowError("", "Changesets: No workspace folder found. Please open a project.", <<>>)>>))
        ELSE Set(p, [run[p] EXCEPT !.type = type, !.root = folder, !.pc = "findPackages"])
    /\ UNCHANGED <<call, processCwd, secrets, fs>>

\* findPackages has returned or thrown: the branch on its result
Discovered(p, r, found) ==
    IF ~found.ok THEN Set(p, WorkflowCatch(r, found.error, found.detail))
    ELSE IF Len(found.packages) = 0
    THEN Set(p, Done(r, <<ShowError("", "Changesets: No packages found. Make sure your project has package.json files.", <<>>)>>))
    ELSE Set(p, [r EXCEPT !.packages = found.packages,
                          !.pc = CASE r.type = "ai" -> "secrets.get"
                                   [] r.type = "empty" -> "promptForEmptySummary"
                                   [] OTHER -> "promptForPackages"])

\* await findPackages(rootPath)
Discover(p) ==
    /\ run[p].pc = "findPackages"
    /\ \E manifests \in Trees :
        LET found == findPackages(processCwd, run[p].root, manifests) IN
        Discovered(p, [run[p] EXCEPT !.found = [files |-> Len(manifests),
                                 reads |-> ManifestsRead(found, manifests)]],
                   found)
    /\ UNCHANGED <<call, processCwd, secrets, fs, started>>

\* await context.secrets.get(SECRET_STORAGE_API_KEY)
SecretsGet(p) ==
    /\ run[p].pc = "secrets.get"
    /\ LET r == Log([run[p] EXCEPT !.apiKey = secrets],
                    <<Ev("secrets.get", "", "", secrets.s)>>) IN
       Set(p, [r EXCEPT !.pc = IF Truthy(secrets) THEN "exec" ELSE "showInputBox"])
    /\ UNCHANGED <<call, processCwd, secrets, fs, started>>

\* the user answers the prompt for the API key
PromptForApiKey(p) ==
    /\ run[p].pc = "showInputBox"
    /\ \E input \in ApiKeyInputs :
        LET r == [run[p] EXCEPT !.apiKey = input,
                     !.dismissed = IF input = JUndefined THEN "showInputBox" ELSE @] IN
        IF Truthy(input)
        THEN IF ~isValidApiKey(input)
             THEN Set(p, Done(r, <<ShowError("", "Invalid API key format. Please check your key and try again.", <<>>)>>))
             ELSE Set(p, [r EXCEPT !.pc = "secrets.store"])
        ELSE Set(p, Done(r, <<ShowError("", "API Key is required for the AI feature.", <<>>)>>))
    /\ UNCHANGED <<call, processCwd, secrets, fs, started>>

\* await context.secrets.store(SECRET_STORAGE_API_KEY, apiKey)
SecretsStore(p) ==
    /\ run[p].pc = "secrets.store"
    /\ secrets' = run[p].apiKey
    /\ Set(p, [Log(run[p], <<Ev("secrets.store", "", "", run[p].apiKey.s),
                            ShowInfo("Gemini API Key stored securely.")>>)
               EXCEPT !.pc = "exec"])
    /\ UNCHANGED <<call, processCwd, fs, started>>

\* an empty diff taken for staged changes
GotDiff_IgnoreEmpty(p, r, ran, diff) ==
    IF ~diff.ok THEN Set(p, WorkflowCatch(ran, diff.error, diff.detail))
    ELSE Set(p, [ran EXCEPT !.gitDiff = diff, !.pc = "withProgress"])

\* the promise of getStagedGitDiff has settled; ran is the run once git was
\* started
GotDiff(p, r, ran, diff) ==
    IF ~diff.ok /\ diff.error = "Invalid working directory"
    THEN Set(p, WorkflowCatch(r, diff.error, diff.detail))
    ELSE IF ~diff.ok
    THEN Set(p, WorkflowCatch(
             IF diff.error = "Failed to get staged changes"
             THEN Log(ran, <<ConsoleError("", "Git diff command failed", <<>>)>>)
             ELSE ran,
             diff.error, diff.detail))
    ELSE IF diff.stdoutLen = 0
    THEN Set(p, Done(ran, <<ShowError("", "Changesets AI: No staged changes found. Please git add your changes first.", <<>>)>>))
    ELSE Set(p, [ran EXCEPT !.gitDiff = diff, !.pc = "withProgress"])

\* await getStagedGitDiff(rootPath): git is run and its callback settles the
\* promise
GitDiff(p) ==
    /\ run[p].pc = "exec"
    /\ \E outcome \in GitOutcomes :
        GotDiff(p, [run[p] EXCEPT !.git = outcome],
                Log([run[p] EXCEPT !.git = outcome],
                    <<Ev("exec", "", "git diff --staged", run[p].root)>>),
                getStagedGitDiff(processCwd, run[p].root, outcome))
    /\ UNCHANGED <<call, processCwd, secrets, fs, started>>

\* the user presses Cancel on the progress notification
RequestCancellation(p) ==
    /\ run[p].pc \in {"withProgress", "fetch", "response.json"}
    /\ ~run[p].cancelRequested
    /\ Set(p, [run[p] EXCEPT !.cancelRequested = TRUE])
    /\ UNCHANGED <<call, processCwd, secrets, fs, started>>

\* the progress callback up to await fetch(...)
SendRequest(p) ==
    /\ run[p].pc = "withProgress"
    /\ IF run[p].cancelRequested
       THEN Set(p, Done(run[p], <<>>))
       ELSE Set(p, [Log(run[p], <<Ev("fetch", "Bearer ", "POST", run[p].apiKey.s)>>)
                    EXCEPT !.pc = "fetch", !.heldAtSend = secrets])
    /\ UNCHANGED <<call, processCwd, secrets, fs, started>>

\* fetch settles: it rejects, or answers with a status
FetchSettles(p) ==
    /\ run[p].pc = "fetch"
    /\ \/ Set(p, AiCatch(run[p], "fetch failed", <<>>))
       \/ \E status \in HttpStatuses :
            LET r == [run[p] EXCEPT !.status = status] IN
            IF ~ResponseOk(status)
            THEN IF status = 403 \/ status = 400
                 THEN Set(p, [r EXCEPT !.pc = "secrets.delete"])
                 ELSE Set(p, AiCatch(r, "API request failed with status ${status}",
                                     StatusText(status)))
            ELSE Set(p, [r EXCEPT !.pc = "response.json"])
    /\ UNCHANGED <<call, processCwd, secrets, fs, started>>

\* the delete that leaves a credential stored by another run in place
SecretsDelete_OnlyOwn(p) ==
    /\ run[p].pc = "secrets.delete"
    /\ secrets' = IF secrets = run[p].apiKey THEN JUndefined ELSE secrets
    /\ Set(p, AiCatch(Log(run[p], <<Ev("secrets.delete", "", "", <<>>)>>),
                      "API request failed with status ${status}. Your API key might be invalid. It has been cleared, please try again.",
                      StatusText(run[p].status)))
    /\ UNCHANGED <<call, processCwd, fs, started>>

\* await context.secrets.delete(SECRET_STORAGE_API_KEY), then the throw
SecretsDelete(p) ==
    /\ run[p].pc = "secrets.delete"
    /\ secrets' = JUndefined
    /\ Set(p, AiCatch(Log(run[p], <<Ev("secrets.delete", "", "", <<>>)>>),
                      "API request failed with status ${status}. Your API key might be invalid. It has been cleared, please try again.",
                      StatusText(run[p].status)))
    /\ UNCHANGED <<call, processCwd, fs, started>>

\* the validation of the parsed reply has accepted or rejected it; on
\* acceptance the modal confirmation is opened
Validated(p, r, checked) ==
    IF ~checked.ok THEN Set(p, AiCatch(r, checked.error, checked.detail))
    ELSE Set(p, [Log(r, <<Ev("showInformationMessage", "modal",
                             "AI Suggestion: \"${summary}\"", <<>>)>>)
                 EXCEPT !.bumps = checked.value.bumps.entries,
                        !.summary = checked.value.summary,
                        !.pc = "confirm"])

\* await response.json(), the parse of the model's text and its validation
ReadReply(p) ==
    /\ run[p].pc = "response.json"
    /\ \E body \in ResponseBodies :
        IF body.kind = "noCandidates"
        THEN Set(p, AiCatch([run[p] EXCEPT !.reply = body],
                            "Invalid response structure from AI.", <<>>))
        ELSE IF body.kind = "notJson"
        THEN Set(p, AiCatch([run[p] EXCEPT !.reply = body],
                            "Invalid JSON response from AI. Please try again.", <<>>))
        ELSE Validated(p, [run[p] EXCEPT !.reply = body],
                       validateParsedResponse(body.parsed))
    /\ UNCHANGED <<call, processCwd, secrets, fs, started>>

\* the file written whatever the answer to the confirmation is
Confirm_AlwaysWrites(p) ==
    /\ run[p].pc = "confirm"
    /\ \/ Set(p, [run[p] EXCEPT !.pc = "createChangesetFile"])
       \/ Set(p, [run[p] EXCEPT !.dismissed = "confirm", !.pc = "createChangesetFile"])
    /\ UNCHANGED <<call, processCwd, secrets, fs, started>>

\* the user answers the modal confirmation
Confirm(p) ==
    /\ run[p].pc = "confirm"
    /\ \/ Set(p, [run[p] EXCEPT !.pc = "createChangesetFile"])
       \/ Set(p, Done([run[p] EXCEPT !.dismissed = "confirm"], <<Cancelled>>))
    /\ UNCHANGED <<call, processCwd, secrets, fs, started>>

\* promptForEmptySummary, and the test of its result
PromptForEmptySummary(p) ==
    /\ run[p].pc = "promptForEmptySummary"
    /\ \E input \in SummaryInputs :
        LET r == [run[p] EXCEPT !.bumps = <<>>, !.summaryInput = input,
                     !.dismissed = IF input = JUndefined
                                   THEN "promptForEmptySummary" ELSE @] IN
        IF Truthy(input) /\ SummaryTooLong(input)
        THEN Set(p, Done(r, <<ShowError("", "Summary is too long. Please keep it under 1000 characters.", <<>>),
                              Cancelled>>))
        ELSE IF input = JUndefined THEN Set(p, Done(r, <<Cancelled>>))
        ELSE Set(p, [r EXCEPT !.summary = input, !.pc = "createChangesetFile"])
    /\ UNCHANGED <<call, processCwd, secrets, fs, started>>

\* the subsequences of s, in the order of s
RECURSIVE SubSeqs(_)
SubSeqs(s) ==
    IF s = <<>> THEN {<<>>}
    ELSE LET rest == SubSeqs(Tail(s)) IN
         rest \cup {<<Head(s)>> \o t : t \in rest}

\* promptForPackages, and the test of its result
PromptForPackages(p) ==
    /\ run[p].pc = "promptForPackages"
    /\ LET r == run[p] IN
       IF Len(r.packages) = 1
       THEN Set(p, [r EXCEPT !.selected = r.packages, !.pc = "promptForBumpTypes"])
       ELSE \/ Set(p, Done([r EXCEPT !.dismissed = "promptForPackages"], <<Cancelled>>))
            \/ \E picked \in SubSeqs(r.packages) :
                IF Len(picked) = 0 THEN Set(p, Done(r, <<Cancelled>>))
                ELSE Set(p, [r EXCEPT !.selected = picked, !.pc = "promptForBumpTypes"])
    /\ UNCHANGED <<call, processCwd, secrets, fs, started>>

\* packagesWithBumps[k] = v on an object kept as its entries in insertion order
SetEntry(entries, k, v) ==
    IF \E i \in 1..Len(entries) : entries[i].k = k
    THEN [i \in 1..Len(entries) |->
             IF entries[i].k = k THEN Entry(k, v) ELSE entries[i]]
    ELSE Append(entries, Entry(k, v))

\* one round of the loop of promptForBumpTypes: the pick for the next package
PromptForBumpType(p) ==
    /\ run[p].pc = "promptForBumpTypes"
    /\ LET r == run[p]
           pkg == r.selected[Len(r.bumps) + 1] IN
       IF ~isValidPackageName(Str(pkg.name))
       THEN Set(p, Done(r, <<ShowError("", "Invalid package name: ${pkg.name}", pkg.name),
                             Cancelled>>))
       ELSE \E bumpType \in BumpPicks :
            IF ~Truthy(bumpType)
            THEN Set(p, Done([r EXCEPT !.dismissed = "promptForBumpTypes"], <<Cancelled>>))
            ELSE IF ~isValidBumpType(bumpType)
            THEN Set(p, Done(r, <<ShowError("", "Invalid bump type: ${bumpType}", bumpType.s),
                                  Cancelled>>))
            ELSE LET bumps == SetEntry(r.bumps, pkg.name, bumpType) IN
                 Set(p, [r EXCEPT !.bumps = bumps,
                                  !.pc = IF Len(bumps) = Len(r.selected)
                                         THEN "promptForSummary"
                                         ELSE "promptForBumpTypes"])
    /\ UNCHANGED <<call, processCwd, secrets, fs, started>>

\* the manual workflow going on with whatever string was typed
PromptForSummary_AcceptsEmpty(p) ==
    /\ run[p].pc = "promptForSummary"
    /\ \E input \in SummaryInputs :
        LET r == [run[p] EXCEPT !.summaryInput = input,
                     !.dismissed = IF input = JUndefined
                                   THEN "promptForSummary" ELSE @] IN
        IF Truthy(input) /\ SummaryTooLong(input)
        THEN Set(p, Done(r, <<ShowError("", "Summary is too long. Please keep it under 1000 characters.", <<>>),
                              Cancelled>>))
        ELSE IF input = JUndefined THEN Set(p, Done(r, <<Cancelled>>))
        ELSE Set(p, [r EXCEPT !.summary = input, !.pc = "createChangesetFile"])
    /\ UNCHANGED <<call, processCwd, secrets, fs, started>>

\* promptForSummary, and the test of its result
PromptForSummary(p) ==
    /\ run[p].pc = "promptForSummary"
    /\ \E input \in SummaryInputs :
        LET r == [run[p] EXCEPT !.summaryInput = input,
                     !.dismissed = IF input = JUndefined
                                   THEN "promptForSummary" ELSE @] IN
        IF Truthy(input) /\ SummaryTooLong(input)
        THEN Set(p, Done(r, <<ShowError("", "Summary is too long. Please keep it under 1000 characters.", <<>>),
                              Cancelled>>))
        ELSE IF ~Truthy(input) THEN Set(p, Done(r, <<Cancelled>>))
        ELSE Set(p, [r EXCEPT !.summary = input, !.pc = "createChangesetFile"])
    /\ UNCHANGED <<call, processCwd, secrets, fs, started>>

\* the success message shown although createChangesetFile threw
Created_MessageOnThrow(p, r, made, dirs, mkdirs) ==
    IF ~made.ok
    THEN /\ fs' = fs \cup dirs
         /\ Set(p, Done(r, mkdirs \o <<ShowInfo("Changeset created successfully!")>>))
    ELSE /\ fs' = fs \cup dirs \cup {made.filePath}
         /\ Set(p, Done([r EXCEPT !.written = Append(@,
                            [path |-> made.filePath, content |-> made.content,
                             existed |-> made.filePath \in fs])],
                        mkdirs \o <<Ev("writeFileSync", "", "", made.filePath),
                                    ShowInfo("Changeset created successfully!")>>))

\* createChangesetFile has returned or thrown
Created(p, r, made, dirs, mkdirs) ==
    IF ~made.ok
    THEN /\ fs' = fs \cup dirs
         /\ Set(p, WorkflowCatch(Log(r, mkdirs), made.error, made.detail))
    ELSE /\ fs' = fs \cup dirs \cup {made.filePath}
         /\ Set(p, Done([r EXCEPT !.written = Append(@,
                            [path |-> made.filePath, content |-> made.content,
                             existed |-> made.filePath \in fs])],
                        mkdirs \o <<Ev("writeFileSync", "", "", made.filePath),
                                    ShowInfo("Changeset created successfully!")>>))

\* fs.writeFileSync(validatedFilePath, content) writes the file, or throws
\* when the file cannot be opened for writing and leaves no file
writeFileSync(made, writable) ==
    IF made.ok /\ ~writable
    THEN CreateFailed("EACCES: permission denied, open '${path}'",
                      made.filePath, made.mkdir, made.dir)
    ELSE made

CreatedIn(p, r, made) ==
    Created(p, r, made,
            IF made.mkdir THEN {made.dir} ELSE {},
            IF made.mkdir THEN <<Ev("mkdirSync", "", "", made.dir)>> ELSE <<>>)

\* await createChangesetFile(rootPath, packagesWithBumps, summary) and the
\* message after it
CreateFile(p) ==
    /\ run[p].pc = "createChangesetFile"
    /\ \E randomBytes \in RandomOutcomes, writable \in BOOLEAN :
        CreatedIn(p, run[p],
            writeFileSync(createChangesetFile(processCwd, run[p].root, run[p].bumps,
                                              run[p].summary, randomBytes, fs),
                          writable))
    /\ UNCHANGED <<call, processCwd, secrets, started>>

\* the handler has returned; the command can be invoked again
Finish(p) ==
    /\ run[p].pc = "done"
    /\ Set(p, IdleRun)
    /\ UNCHANGED <<call, processCwd, secrets, fs, started>>

Step(p) ==
    \/ Start(p)
    \/ Discover(p)
    \/ SecretsGet(p)
    \/ PromptForApiKey(p)
    \/ SecretsStore(p)
    \/ GitDiff(p)
    \/ RequestCancellation(p)
    \/ SendRequest(p)
    \/ FetchSettles(p)
    \/ SecretsDelete(p)
    \/ ReadReply(p)
    \/ Confirm(p)
    \/ PromptForEmptySummary(p)
    \/ PromptForPackages(p)
    \/ PromptForBumpType(p)
    \/ PromptForSummary(p)
    \/ CreateFile(p)
    \/ Finish(p)

\* one workflow run at a time
Next == Step("p1")

Spec == Init /\ [][Next]_vars

\* Two invocations of the AI command interleaved at their awaits, on the one
\* secret store: each in the workspace with one package and staged changes,
\* up to the end of the AI call. A well-formed key is entered at the prompt;
\* the endpoint accepts the request or refuses it.
Interleaved(p) ==
    \/ Start(p) /\ run'[p].type = "ai" /\ run'[p].root = WorkspaceRoot
    \/ Discover(p) /\ Len(run'[p].packages) = 1 /\ run'[p].found.files = 1
    \/ SecretsGet(p)
    \/ PromptForApiKey(p) /\ run'[p].pc = "secrets.store"
    \/ SecretsStore(p)
    \/ GitDiff(p) /\ run'[p].git = GitOutcome(FALSE, "none", 120, 120)
    \/ SendRequest(p)
    \/ FetchSettles(p) /\ run'[p].status \in {200, 401, 403}
    \/ SecretsDelete(p)
    \/ ReadReply(p) /\ run'[p].reply.kind = "noCandidates"

SpecInterleaved == Init /\ [][\E p \in Procs : Interleaved(p)]_vars

----------------------------------------------------------------------------
(* The pure functions on their own *)

\* Inputs of createChangesetFile: objects of (package, level) pairs in
\* iteration order, valid and not, and summaries with the characters the
\* escaping is about
BumpMaps ==
    {<<>>,
     <<Entry(PkgA, Str(minor))>>,
     <<Entry(PkgA, Str(minor)), Entry(PkgB, Str(major))>>,
     <<Entry(PkgB, Str(patch)), Entry(PkgA, Str(major))>>,
     <<Entry(PkgA, Str(huge))>>,
     <<Entry(DotDotEvil, Str(minor))>>,
     <<Entry(PkgA, Str(minor)), Entry(PkgSpaceName, Str(patch))>>,
     <<Entry(PkgA, Str(minor)), Entry(PkgB, JNumber42)>>,
     <<Entry(<<"a", "\"", "b">>, Str(minor))>>,
     <<Entry(<<"a", "\n", "b">>, Str(minor)), Entry(PkgA, Str(minor))>>,
     <<Entry(PkgA, Str(<<"m","i","n","o","r","\n","-","-","-">>))>>}
FileSummaries ==
    {JUndefined, Str(<<>>), Str(FixBug),
     Str(<<"s","a","y"," ","\"","h","i","\"">>),
     Str(<<"a","\n","b">>), Str(<<"a","\r","b">>), Str(<<"a","\r","\n","b">>),
     Str(<<"x","\n","-","-","-","\n","\"","p","\"",":"," ","m","a","j","o","r">>),
     Str(<<"-","-","-">>), Str(<<"\n">>)}

\* createChangesetFile(rootPath, packagesWithBumps, summary) on the files at hand
CallCreateChangesetFile ==
    /\ call.op = "none"
    /\ \E b \in BumpMaps, s \in FileSummaries, randomBytes \in RandomOutcomes :
        LET made == createChangesetFile(processCwd, WorkspaceRoot, b, s,
                                        randomBytes, fs) IN
        /\ call' = [op |-> "createChangesetFile", cwd |-> processCwd,
                    arg |-> [bumps |-> b, summary |-> s, existing |-> fs],
                    base |-> WorkspaceRoot, ret |-> made]
        /\ fs' = fs \cup (IF made.mkdir THEN {made.dir} ELSE {})
                    \cup (IF made.ok THEN {made.filePath} ELSE {})
    /\ UNCHANGED <<processCwd, run, secrets, started>>

\* Inputs of findPackages: what the enumeration can return for the workspace
\* root /w, every manifest with its own path, in every order
ManifestPool ==
    {Manifest(WorkspaceRoot, <<"r","o","o","t">>),
     [Manifest(WorkspaceRoot, <<"r","o","o","t">>) EXCEPT !.private = TRUE],
     Manifest(WorkspaceRoot, PkgA),
     ManifestA, ManifestB,
     Manifest(WorkspaceRoot \o <<"/","c">>, PkgA),
     [Manifest(WorkspaceRoot \o <<"/","d">>, PkgB) EXCEPT !.parses = FALSE,
                                                         !.name = JUndefined],
     [Manifest(WorkspaceRoot \o <<"/","e">>, PkgB) EXCEPT !.name = JUndefined],
     Manifest(WorkspaceRoot \o <<"/","f">>, DotDotEvil),
     PrivateManifest,
     Manifest(WorkspaceRoot \o <<"x">>, PkgB),
     Manifest(<<"/","o">>, PkgB)}
MaxManifests == 3
ManifestSeqs ==
    {t \in UNION {[1..n -> ManifestPool] : n \in 0..MaxManifests} :
        \A i, j \in 1..Len(t) : i # j => t[i].fsPath # t[j].fsPath}
    \cup {tr \in Trees : Len(tr) >= MaxPackageJsonFiles}

\* findPackages(rootPath) on one enumeration
CallFindPackages ==
    /\ call.op = "none"
    /\ \E manifests \in ManifestSeqs :
        LET found == findPackages(processCwd, WorkspaceRoot, manifests) IN
        call' = [op |-> "findPackages", cwd |-> processCwd, arg |-> manifests,
                 base |-> WorkspaceRoot, ret |-> found,
                 io |-> FindPackagesIO(processCwd, WorkspaceRoot, manifests)]
    /\ UNCHANGED <<processCwd, run, secrets, fs, started>>

\* getStagedGitDiff(cwd) with one outcome of the git process
CallGetStagedGitDiff ==
    /\ call.op = "none"
    /\ \E outcome \in GitOutcomes :
        call' = [op |-> "getStagedGitDiff", cwd |-> processCwd, arg |-> outcome,
                 base |-> WorkspaceRoot,
                 ret |-> getStagedGitDiff(processCwd, WorkspaceRoot, outcome)]
    /\ UNCHANGED <<processCwd, run, secrets, fs, started>>

\* the text of a reply, and the same text inside a fenced block with or
\* without the json tag and the line breaks, are read
CallReadReplyText ==
    /\ call.op = "none"
    /\ \E reply \in JsonReplies, sorry \in BOOLEAN,
          tag \in {<<>>, <<"j","s","o","n">>}, nl \in {<<>>, <<"\n">>} :
        LET text == IF sorry THEN <<"S","o","r","r","y">> ELSE ReplyText(reply) IN
        call' = [op |-> "readReplyText", cwd |-> <<>>,
                 arg |-> [text |-> text, tag |-> tag, nl |-> nl], base |-> <<>>,
                 ret |-> [wrapped |-> readReplyText(Fence \o tag \o nl \o text
                                                    \o nl \o Fence),
                          plain |-> readReplyText(text)]]
    /\ UNCHANGED <<processCwd, run, secrets, fs, started>>

PureInit ==
    /\ call = NoCall
    /\ processCwd = <<"/">>
    /\ run = [p \in Procs |-> IdleRun]
    /\ secrets = JUndefined
    /\ fs = {}
    /\ started = 0

PureNext ==
    \/ CallValidateAndSanitizePath
    \/ CallIsValidPackageName
    \/ CallIsValidBumpType
    \/ CallCreateChangesetFile
    \/ CallFindPackages
    \/ CallGetStagedGitDiff
    \/ CallReadReplyText
    \/ Return

SpecPure == PureInit /\ [][PureNext]_vars

----------------------------------------------------------------------------
(* Properties of the path guard *)

\* r is rb itself or lies underneath it: rb, a separator, further segments
IsInside(r, rb) ==
    \/ r = rb
    \/ StartsWith(r, IF rb = <<"/">> THEN rb ELSE rb \o <<"/">>)

HasDotDotSegment(p) == \E i \in 1..Len(Split(p)) : Split(p)[i] = <<".", ".">>

\* C1: validateAndSanitizePath(p, b) returns null or a path that is resolve(b)
\* itself or lies underneath resolve(b); never a path outside the directory b.
C1_ResultInsideBase ==
    call.op = "validateAndSanitizePath" =>
        \/ call.ret = JNull
        \/ IsInside(call.ret.s, PathResolve(call.cwd, <<call.base>>))

\* C2: validateAndSanitizePath returns null for a null, non-string or empty
\* candidate and for every candidate whose resolved form escapes the base
\* through ".." segments.
C2_RejectsBadCandidates ==
    call.op = "validateAndSanitizePath" =>
        LET p == call.arg
            rb == PathResolve(call.cwd, <<call.base>>) IN
        (\/ ~IsString(p)
         \/ p.s = <<>>
         \/ /\ HasDotDotSegment(p.s)
            /\ ~IsInside(PathResolve(call.cwd, <<call.base, p.s>>), rb))
        => call.ret = JNull

----------------------------------------------------------------------------
(* Properties of the input validators *)

NameChars == Alnum \cup {"-", "_", "."}
IsPlainName(s) == Len(s) >= 1 /\ \A i \in 1..Len(s) : s[i] \in NameChars
\* @scope/name
IsScopedName(s) ==
    /\ Len(s) >= 4
    /\ s[1] = "@"
    /\ \E i \in 3..(Len(s)-1) :
        /\ s[i] = "/"
        /\ IsPlainName(SubSeq(s, 2, i-1))
        /\ IsPlainName(SubSeq(s, i+1, Len(s)))

HasSpace(s) == \E i \in 1..Len(s) : s[i] = " "

\* C3: every string of the form name or @scope/name (scope and name built from
\* alphanumerics, hyphens, underscores and dots, at most 214 characters) is a
\* valid package name.
C3_AcceptsPlainAndScoped ==
    (/\ call.op = "isValidPackageName"
     /\ IsString(call.arg)
     /\ Len(call.arg.s) <= 214
     /\ (IsPlainName(call.arg.s) \/ IsScopedName(call.arg.s)))
    => call.ret = TRUE

\* C4: isValidPackageName is false for a non-string, an empty string, a string
\* longer than 214 characters, one holding a space and one whose first
\* character is not a permitted leading character; a string of permitted
\* characters is accepted at 214 characters and rejected at 215.
C4_RejectsInvalidNames ==
    call.op = "isValidPackageName" =>
        LET v == call.arg IN
        /\ (\/ ~IsString(v)
            \/ v.s = <<>>
            \/ Len(v.s) > 214
            \/ HasSpace(v.s)
            \/ v.s[1] \notin PackageNameLead) => call.ret = FALSE
        /\ (/\ IsString(v)
            /\ Len(v.s) = 214
            /\ v.s[1] \in PackageNameLead
            /\ \A i \in 2..Len(v.s) : v.s[i] \in PackageNameRest) => call.ret = TRUE

\* a 215-character name of permitted characters has been rejected
C4_Witness ==
    /\ call.op = "isValidPackageName"
    /\ call.arg = Str(Rep("a", 215))
    /\ call.ret = FALSE

\* C5: isValidBumpType(b) is true exactly when b is one of the strings major,
\* minor, patch, compared with regard to case; every other value is invalid.
C5_BumpTypeExactlyThree ==
    call.op = "isValidBumpType" =>
        (call.ret = TRUE <=>
            /\ IsString(call.arg)
            /\ call.arg.s \in {major, minor, patch})

\* "MAJOR" has been found invalid
C5_Witness ==
    /\ call.op = "isValidBumpType"
    /\ call.arg = Str(MAJOR)
    /\ call.ret = FALSE

----------------------------------------------------------------------------
(* Properties of the workflows *)

\* fs.writeFileSync threw in the run
WriteThrew(r) ==
    \E i \in 1..Len(r.trace) :
        /\ r.trace[i].e = "showErrorMessage"
        /\ r.trace[i].m = "EACCES: permission denied, open '${path}'"
HasEvent(r, e) == \E i \in 1..Len(r.trace) : r.trace[i].e = e
\* the error messages the AI call has shown: <<message, interpolated value>>
AiErrors(r) ==
    {<<r.trace[i].m, r.trace[i].d>> : i \in
        {j \in 1..Len(r.trace) : /\ r.trace[j].e = "showErrorMessage"
                                 /\ r.trace[j].via = "Changesets AI Error: "}}
NoSuggestion(r) == r.pc = "done" /\ r.bumps = <<>> /\ r.summary = JUndefined
NothingWritten(r) == r.written = <<>> /\ ~HasEvent(r, "writeFileSync")

HasInvalidBumpValue(reply) ==
    /\ reply.kind = "json"
    /\ reply.parsed.bumps.present
    /\ \E i \in 1..Len(reply.parsed.bumps.entries) :
        reply.parsed.bumps.entries[i].v \notin {Str(major), Str(minor), Str(patch)}

\* C6: when the bumps of the AI reply hold a value other than major, minor or
\* patch, the AI call returns no suggestion at all, whatever the other entries
\* and the summary are, and the run writes no changeset file.
C6_InvalidBumpRejectsAll ==
    \A p \in Procs :
        HasInvalidBumpValue(run[p].reply) =>
            NoSuggestion(run[p]) /\ NothingWritten(run[p])

\* a reply with one valid entry, one "huge" entry and a good summary was rejected
C6_Witness ==
    \E p \in Procs :
        /\ run[p].reply.kind = "json"
        /\ run[p].reply.parsed =
               [bumps |-> Bumps(<<Entry(PkgA, Str(minor)), Entry(PkgB, Str(huge))>>),
                summary |-> Str(FixBug)]
        /\ run[p].pc = "done"

MissingMessage == "Invalid AI response structure: missing bumps or summary"
NameMessage == "Invalid package name in AI response: ${pkg}"
BumpMessage == "Invalid bump type in AI response: ${bump}"
LengthMessage == "AI generated summary is too long"

KeysMissing(parsed) == ~parsed.bumps.present \/ ~Truthy(parsed.summary)

\* the messages of a validation that tests (a) the keys, (b) every name,
\* (c) every bump, (d) the length, and stops at the first test that fails
StagedVerdict(parsed) ==
    LET entries == parsed.bumps.entries IN
    IF KeysMissing(parsed) THEN {MissingMessage}
    ELSE IF \E i \in 1..Len(entries) : ~isValidPackageName(Str(entries[i].k))
    THEN {NameMessage}
    ELSE IF \E i \in 1..Len(entries) : ~isValidBumpType(entries[i].v)
    THEN {BumpMessage}
    ELSE IF IsString(parsed.summary) /\ Len(parsed.summary.s) > 1000
    THEN {LengthMessage}
    ELSE {}

\* C7, as stated: the first failing check in the order keys, all names, all
\* bumps, length is the one reported.
C7_ChecksInStatedOrder ==
    \A p \in Procs :
        run[p].reply.kind = "json" =>
            {e[1] : e \in AiErrors(run[p])} = StagedVerdict(run[p].reply.parsed)

\* the tests entry by entry: the first entry, in iteration order, whose name
\* or bump fails, its name tested before its bump
EntryWiseVerdict(parsed) ==
    LET entries == parsed.bumps.entries
        bad == {i \in 1..Len(entries) :
                   \/ ~isValidPackageName(Str(entries[i].k))
                   \/ ~isValidBumpType(entries[i].v)} IN
    IF KeysMissing(parsed) THEN {<<MissingMessage, <<>>>>}
    ELSE IF bad # {}
    THEN LET i == CHOOSE i \in bad : \A j \in bad : i <= j IN
         IF ~isValidPackageName(Str(entries[i].k))
         THEN {<<NameMessage, entries[i].k>>}
         ELSE {<<BumpMessage, escapeYamlValue(entries[i].v)>>}
    ELSE IF IsString(parsed.summary) /\ Len(parsed.summary.s) > 1000
    THEN {<<LengthMessage, <<>>>>}
    ELSE {}

\* C7, amended: the keys are tested first, then the entries one by one in
\* iteration order (name, then bump, of each entry), then the length; the
\* first failing test is the one reported.
C7_ChecksEntryByEntry ==
    \A p \in Procs :
        run[p].reply.kind = "json" =>
            AiErrors(run[p]) = EntryWiseVerdict(run[p].reply.parsed)

\* a reply with a bad bump on its first entry and a bad name on its second
\* was reported as a bad bump
C7_Witness ==
    \E p \in Procs :
        /\ run[p].reply.kind = "json"
        /\ run[p].reply.parsed =
               [bumps |-> Bumps(<<Entry(PkgA, Str(huge)), Entry(DotDotEvil, Str(minor))>>),
                summary |-> Str(FixBug)]
        /\ AiErrors(run[p]) = {<<BumpMessage, huge>>}

\* the delete of the credential precedes every error message of the run
DeletedBeforeError(r) ==
    \E i \in 1..Len(r.trace) :
        /\ r.trace[i].e = "secrets.delete"
        /\ \A j \in 1..Len(r.trace) : r.trace[j].e = "showErrorMessage" => i < j

\* C8: after an answer with status 401 or 403 the stored credential is gone,
\* deleted before the error message was shown, the call gave no suggestion
\* and nothing was written, so the next run finds no credential.
C8_AuthFailureClearsCredential ==
    \A p \in Procs :
        (run[p].pc = "done" /\ run[p].status \in {401, 403}) =>
            /\ secrets = JUndefined
            /\ DeletedBeforeError(run[p])
            /\ NoSuggestion(run[p])
            /\ NothingWritten(run[p])

\* the trimmed string matches ^[A-Za-z0-9]{20,100}$
MatchesKeyFormat(v) ==
    /\ IsString(v)
    /\ LET t == Trim(v.s) IN
       /\ Len(t) >= 20
       /\ Len(t) <= 100
       /\ \A i \in 1..Len(t) : t[i] \in Alnum

\* the run found no stored credential and the prompt has been answered
KeyWasEntered(r) ==
    /\ r.type = "ai"
    /\ \E i \in 1..Len(r.trace) : r.trace[i] = Ev("secrets.get", "", "", <<>>)
    /\ r.pc # "showInputBox"

\* C9: when no credential is stored and the string entered fails the format
\* check, nothing is stored, no diff is retrieved, no request is sent and no
\* file is written.
C9_InvalidKeyNeverStored ==
    \A p \in Procs :
        (KeyWasEntered(run[p]) /\ ~MatchesKeyFormat(run[p].apiKey)) =>
            /\ secrets = JUndefined
            /\ ~HasEvent(run[p], "secrets.store")
            /\ ~HasEvent(run[p], "exec")
            /\ ~HasEvent(run[p], "fetch")
            /\ NothingWritten(run[p])

\* a 10-character key was entered and the run ended on the format error
C9_Witness ==
    \E p \in Procs :
        /\ KeyWasEntered(run[p])
        /\ run[p].apiKey = Str(Rep("k", 10))
        /\ run[p].pc = "done"
        /\ HasEvent(run[p], "showErrorMessage")

\* the summary the run was given: typed by the user, or sent by the AI
SummaryGiven(r) ==
    IF r.type = "ai"
    THEN (IF r.reply.kind = "json" THEN r.reply.parsed.summary ELSE JUndefined)
    ELSE r.summaryInput

TooLongShown(r) ==
    \E i \in 1..Len(r.trace) :
        /\ r.trace[i].e = "showErrorMessage"
        /\ r.trace[i].m \in {"Summary is too long. Please keep it under 1000 characters.",
                             LengthMessage}

BumpsValid(parsed) ==
    /\ parsed.bumps.present
    /\ \A i \in 1..Len(parsed.bumps.entries) :
        /\ isValidPackageName(Str(parsed.bumps.entries[i].k))
        /\ isValidBumpType(parsed.bumps.entries[i].v)

\* C10: a summary of more than 1000 characters is rejected in the manual, the
\* empty and the AI path, and no file is written for it; one of exactly 1000
\* characters is accepted in each path.
C10_OversizedSummaryRejected ==
    \A p \in Procs :
        LET r == run[p]
            s == SummaryGiven(r) IN
        /\ (IsString(s) /\ Len(s.s) > 1000) =>
               /\ r.pc = "done"
               /\ r.summary = JUndefined
               /\ NothingWritten(r)
        /\ (IsString(s) /\ Len(s.s) = 1000) =>
               /\ ~TooLongShown(r)
               /\ r.type \in {"manual", "empty"} =>
                      /\ r.summary = s
                      /\ (r.pc = "done" /\ ~WriteThrew(r)) => Len(r.written) = 1
               /\ (r.type = "ai" /\ BumpsValid(r.reply.parsed)) => r.summary = s

\* a summary of 1001 characters typed in the manual path was rejected
C10_Witness ==
    \E p \in Procs :
        /\ run[p].type = "manual"
        /\ run[p].summaryInput = Str(Rep("s", 1001))
        /\ run[p].pc = "done"
        /\ TooLongShown(run[p])

----------------------------------------------------------------------------
(* Properties of the changeset file *)

AllPairsValid(b) ==
    \A i \in 1..Len(b) : isValidPackageName(Str(b[i].k)) /\ isValidBumpType(b[i].v)

\* each line followed by a line feed
RECURSIVE JoinLines(_)
JoinLines(lines) ==
    IF lines = <<>> THEN <<>>
    ELSE Head(lines) \o <<"\n">> \o JoinLines(Tail(lines))

PackageLine(e) == <<"\"">> \o e.k \o <<"\"", ":", " ">> \o e.v.s
SummaryLine(summary) == IF Truthy(summary) THEN escapeYamlValue(summary) ELSE <<>>
ExpectedContent(b, summary) ==
    JoinLines(<<Delimiter>> \o [i \in 1..Len(b) |-> PackageLine(b[i])]
              \o <<Delimiter, <<>>, SummaryLine(summary)>>)
PkgAMinorFixBug ==
    <<"-","-","-","\n",
      "\"","p","k","g","A","\"",":"," ","m","i","n","o","r","\n",
      "-","-","-","\n",
      "\n",
      "F","i","x"," ","b","u","g","\n">>

\* C11: for valid (package, level) pairs the content written is the line ---,
\* one line "<package>": <level> per entry in iteration order, the line ---,
\* one blank line and the escaped summary with its line feed; {pkgA: minor}
\* with Fix bug gives exactly ---, "pkgA": minor, ---, blank, Fix bug.
C11_ContentLayout ==
    (call.op = "createChangesetFile" /\ AllPairsValid(call.arg.bumps)) =>
        /\ call.ret.ok
        /\ call.ret.filePath \in fs
        /\ call.ret.content = ExpectedContent(call.arg.bumps, call.arg.summary)
        /\ (call.arg.bumps = <<Entry(PkgA, Str(minor))>> /\ call.arg.summary = Str(FixBug))
               => call.ret.content = PkgAMinorFixBug

\* {pkgA: minor} with Fix bug has been written
C11_Witness ==
    /\ call.op = "createChangesetFile"
    /\ call.arg.bumps = <<Entry(PkgA, Str(minor))>>
    /\ call.arg.summary = Str(FixBug)
    /\ call.ret.content = PkgAMinorFixBug

\* the paths of the changeset files on disk
ChangesetFiles(files) ==
    {f \in files : Len(f) > Len(FileSuffix)
                   /\ SubSeq(f, Len(f) - Len(FileSuffix) + 1, Len(f)) = FileSuffix}

\* C12: when a key fails isValidPackageName or a value fails isValidBumpType,
\* createChangesetFile throws, nothing is written and the run leaves no
\* changeset file that was not there before.
C12_InvalidPairWritesNothing ==
    (call.op = "createChangesetFile" /\ ~AllPairsValid(call.arg.bumps)) =>
        /\ ~call.ret.ok
        /\ call.ret.error \in {"Invalid package name: ${pkg}", "Invalid bump type: ${bump}"}
        /\ call.ret.content = <<>>
        /\ ChangesetFiles(fs) = ChangesetFiles(call.arg.existing)

\* a valid pair followed by an invalid one: nothing was written
C12_Witness ==
    /\ call.op = "createChangesetFile"
    /\ call.arg.bumps = <<Entry(PkgA, Str(minor)), Entry(PkgB, JNumber42)>>
    /\ ~call.ret.ok
    /\ ChangesetFiles(fs) = {}

LineBreaks == {"\n", "\r"}
\* the text split at every line break character
RECURSIVE SplitLines(_)
SplitLines(text) ==
    LET idx == {i \in 1..Len(text) : text[i] \in LineBreaks} IN
    IF idx = {} THEN <<text>>
    ELSE LET first == CHOOSE i \in idx : \A j \in idx : i <= j IN
         <<SubSeq(text, 1, first - 1)>> \o SplitLines(SubSeq(text, first + 1, Len(text)))

\* C13: whatever the summary holds, the content of a file written for n valid
\* pairs splits into n+4 lines and the empty rest after the final line feed:
\* ---, the n package lines, ---, a blank line and one summary line.
C13_StructureIntact ==
    (call.op = "createChangesetFile" /\ AllPairsValid(call.arg.bumps)) =>
        LET n == Len(call.arg.bumps)
            lines == SplitLines(call.ret.content) IN
        /\ Len(lines) = n + 5
        /\ lines[1] = Delimiter
        /\ \A i \in 1..n : lines[i + 1] = PackageLine(call.arg.bumps[i])
        /\ lines[n + 2] = Delimiter
        /\ lines[n + 3] = <<>>
        /\ lines[n + 5] = <<>>

\* a summary holding a line feed, a delimiter and a forged package line was
\* written on one line
C13_Witness ==
    /\ call.op = "createChangesetFile"
    /\ call.arg.bumps = <<Entry(PkgA, Str(minor)), Entry(PkgB, Str(major))>>
    /\ call.arg.summary =
           Str(<<"x","\n","-","-","-","\n","\"","p","\"",":"," ","m","a","j","o","r">>)
    /\ call.ret.ok
    /\ Len(SplitLines(call.ret.content)) = 7

----------------------------------------------------------------------------
(* Properties of the package discovery *)

RootManifestPath == PathJoin(WorkspaceRoot, PackageJson)
Named(m) ==
    m.parses /\ IsString(m.name) /\ isValidPackageName(m.name) /\ ~m.private

\* C14: when the manifest of the workspace root parses, has a valid name and
\* is not private, its package is the first one returned, in whatever order
\* the manifests were enumerated.
C14_RootPackageFirst ==
    (call.op = "findPackages" /\ call.ret.ok) =>
        \A i \in 1..Len(call.arg) :
            (call.arg[i].fsPath = RootManifestPath /\ Named(call.arg[i])) =>
                /\ Len(call.ret.packages) >= 1
                /\ call.ret.packages[1] =
                       [name |-> call.arg[i].name.s, path |-> WorkspaceRoot]

\* C15: no two packages returned have the same name.
C15_NamesUnique ==
    (call.op = "findPackages" /\ call.ret.ok) =>
        \A i, j \in 1..Len(call.ret.packages) :
            i # j => call.ret.packages[i].name # call.ret.packages[j].name

TooManyFiles == "Too many package.json files found. Please check your workspace structure."

\* the root passes the guard, so the manifests are enumerated
RootAccepted ==
    validateAndSanitizePath(processCwd, Str(WorkspaceRoot), processCwd) # JNull

\* C17: with more than 1000 manifests enumerated findPackages throws its
\* error before it reads a manifest and the run writes no file; with exactly
\* 1000 every manifest is read and the run goes on with the packages found.
C17_ManifestCeiling ==
    \A p \in Procs :
        /\ (RootAccepted /\ run[p].found.files > 1000) =>
               /\ run[p].found.reads = 0
               /\ run[p].pc = "done"
               /\ run[p].packages = <<>>
               /\ \E i \in 1..Len(run[p].trace) :
                      run[p].trace[i] = ShowError("An error occurred: ", TooManyFiles, <<>>)
               /\ NothingWritten(run[p])
        /\ (RootAccepted /\ run[p].found.files = 1000) =>
               /\ run[p].found.reads = 1000
               /\ run[p].packages =
                      <<[name |-> PkgA, path |-> WorkspaceRoot \o <<"/", "a">>]>>
               /\ ~\E i \in 1..Len(run[p].trace) : run[p].trace[i].m = TooManyFiles

\* 1001 manifests were enumerated and the run ended on the error
C17_Witness ==
    \E p \in Procs :
        /\ RootAccepted
        /\ run[p].found.files = 1001
        /\ run[p].pc = "done"
        /\ run[p].found.reads = 0

----------------------------------------------------------------------------
(* Properties of the staged diff retrieval *)

Resolved(ret, len) == ret.ok /\ ret.stdoutLen = len

\* C18: the promise rejects when git fails without output, resolves with the
\* output captured when git fails with output, and resolves with the output
\* (possibly empty) when git succeeds.
C18_FailureWithOutputResolves ==
    call.op = "getStagedGitDiff" =>
        /\ (call.arg.error /\ call.arg.stdoutLen = 0) =>
               (~call.ret.ok /\ call.ret.error = "Failed to get staged changes")
        /\ (call.arg.error /\ call.arg.stdoutLen > 0) =>
               Resolved(call.ret, call.arg.stdoutLen)
        /\ ~call.arg.error => Resolved(call.ret, call.arg.stdoutLen)

\* git exited with a failure after printing 120 characters: they are returned
C18_Witness ==
    /\ call.op = "getStagedGitDiff"
    /\ call.arg = GitOutcome(TRUE, "exit", 120, 120)
    /\ Resolved(call.ret, 120)

C20_TimeoutRejects ==
    (call.op = "getStagedGitDiff" /\ call.arg.cause = "timeout") => ~call.ret.ok

----------------------------------------------------------------------------
(* Properties of the runs: cancellation, requests, confirmation *)

EventsAt(r, e) == {i \in 1..Len(r.trace) : r.trace[i].e = e}
SuccessShown(r) ==
    \E i \in 1..Len(r.trace) : r.trace[i] = ShowInfo("Changeset created successfully!")

\* C21: once cancellation of the progress operation was requested, before
\* the request is sent or while the reply is awaited, the AI call gives no
\* suggestion and the run writes no file.
C21_CancellationAbortsCall ==
    \A p \in Procs :
        run[p].cancelRequested =>
            /\ run[p].pc \notin {"confirm", "createChangesetFile"}
            /\ run[p].pc = "done" => (NoSuggestion(run[p]) /\ NothingWritten(run[p]))

\* C22: a run in which the user closed a prompt without an answer ends with
\* no file written and no success message, the closing reported by the
\* neutral notice and by no error message.
C22_DismissalIsNeutral ==
    \A p \in Procs :
        run[p].dismissed # "none" =>
            /\ run[p].pc = "done"
            /\ NothingWritten(run[p])
            /\ ~SuccessShown(run[p])
            /\ EventsAt(run[p], "showErrorMessage") = {}
            /\ run[p].trace[Len(run[p].trace)] = Cancelled

\* the reply of the run failed: fetch rejected, the status was not 2xx, the
\* body held no JSON, or the JSON broke the schema
ReplyFailed(r) ==
    \/ \E i \in 1..Len(r.trace) : r.trace[i].m = "fetch failed"
    \/ (r.status # 0 /\ ~(r.status >= 200 /\ r.status <= 299) /\ r.pc # "secrets.delete")
    \/ r.reply.kind \in {"noCandidates", "notJson"}
    \/ (r.reply.kind = "json" /\ EntryWiseVerdict(r.reply.parsed) # {})

\* C23: a run sends at most one request; after a failed, malformed or
\* schema-violating reply the failure is shown, the run is over and nothing
\* was written.
C23_OneRequestPerRun ==
    \A p \in Procs :
        /\ Cardinality(EventsAt(run[p], "fetch")) <= 1
        /\ ReplyFailed(run[p]) =>
               /\ run[p].pc = "done"
               /\ AiErrors(run[p]) # {}
               /\ NoSuggestion(run[p])
               /\ NothingWritten(run[p])

\* the endpoint answered 500 and the run ended after its single request
C23_Witness ==
    \E p \in Procs :
        /\ run[p].status = 500
        /\ run[p].pc = "done"
        /\ Cardinality(EventsAt(run[p], "fetch")) = 1

\* C24: every read of a file is preceded, in the same call, by a successful
\* check of the path read or of the directory that holds it.
C24_ReadsAfterPathCheck ==
    call.op = "findPackages" =>
        \A i \in 1..Len(call.io) :
            call.io[i].op \in {"readFile", "readFileSync", "existsSync"} =>
                \E j \in 1..(i - 1) :
                    /\ call.io[j].op = "validateAndSanitizePath"
                    /\ call.io[j].ok
                    /\ call.io[j].path \in {call.io[i].path, Dirname(call.io[i].path)}

\* C25: no run writes to a path where a changeset file already is.
C25_NeverOverwrites ==
    \A p \in Procs :
        \A i \in 1..Len(run[p].written) : ~run[p].written[i].existed

ModalShown(r) ==
    {i \in 1..Len(r.trace) : r.trace[i].e = "showInformationMessage"
                             /\ r.trace[i].via = "modal"}

\* C26: in the AI workflow a file is written only after a reply that passed
\* the validation was shown in the modal confirmation and accepted; when the
\* confirmation is closed otherwise nothing is written.
C26_WrittenOnlyAfterAccept ==
    \A p \in Procs :
        run[p].type = "ai" =>
            /\ (run[p].pc = "createChangesetFile" \/ ~NothingWritten(run[p])) =>
                   /\ run[p].reply.kind = "json"
                   /\ EntryWiseVerdict(run[p].reply.parsed) = {}
                   /\ ModalShown(run[p]) # {}
                   /\ \A w \in EventsAt(run[p], "writeFileSync") :
                          \E i \in ModalShown(run[p]) : i < w
                   /\ run[p].dismissed = "none"
            /\ run[p].dismissed = "confirm" =>
                   (run[p].pc = "done" /\ NothingWritten(run[p]))

\* an AI suggestion was shown, accepted and written
C26_Witness ==
    \E p \in Procs :
        /\ run[p].type = "ai"
        /\ ModalShown(run[p]) # {}
        /\ Len(run[p].written) = 1

ChangesetFilePrefix ==
    <<"/","w","/",".","c","h","a","n","g","e","s","e","t","/",
      "c","h","a","n","g","e","s","e","t","-">>
IsChangesetFilePath(path) ==
    LET n == Len(ChangesetFilePrefix) IN
    /\ Len(path) > n + 3
    /\ SubSeq(path, 1, n) = ChangesetFilePrefix
    /\ SubSeq(path, Len(path) - 2, Len(path)) = <<".", "m", "d">>
    /\ \A i \in (n + 1)..(Len(path) - 3) : path[i] \in Alnum

\* C27: a run writes at most one file and a successful run exactly one; the
\* file is <root>/.changeset/changeset-<id>.md.
C27_OneFileInChangesetDir ==
    \A p \in Procs :
        /\ Len(run[p].written) <= 1
        /\ Cardinality(EventsAt(run[p], "writeFileSync")) = Len(run[p].written)
        /\ SuccessShown(run[p]) <=> Len(run[p].written) = 1
        /\ \A i \in 1..Len(run[p].written) :
               /\ IsChangesetFilePath(run[p].written[i].path)
               /\ run[p].written[i].path \in fs

\* a run has ended with the success message and its file
C27_Witness ==
    \E p \in Procs :
        /\ run[p].pc = "done"
        /\ SuccessShown(run[p])
        /\ Len(run[p].written) = 1
        /\ IsChangesetFilePath(run[p].written[1].path)

----------------------------------------------------------------------------
(* Properties of the runs: errors and empty summaries *)

ErrorShown(r, m) ==
    \E i \in 1..Len(r.trace) : r.trace[i].e = "showErrorMessage" /\ r.trace[i].m = m
Aborted(r) == r.pc = "done" /\ NothingWritten(r) /\ ~SuccessShown(r)
GitRan(r) == EventsAt(r, "exec") # {}

\* C28: with no workspace folder, with no package discovered, with git
\* failing without output and with no staged changes the run shows an error
\* and ends with nothing written; with no staged changes no request is sent.
C28_EnvironmentErrorsAbort ==
    \A p \in Procs :
        LET r == run[p] IN
        /\ (r.type # "none" /\ r.root = NoWorkspace) =>
               /\ Aborted(r)
               /\ ErrorShown(r, "Changesets: No workspace folder found. Please open a project.")
        /\ (r.root # NoWorkspace /\ r.pc # "findPackages" /\ RootAccepted
                /\ r.found.files = 0) =>
               /\ Aborted(r)
               /\ ErrorShown(r, "Changesets: No packages found. Make sure your project has package.json files.")
        /\ (GitRan(r) /\ r.git.error /\ r.git.stdoutLen = 0) =>
               /\ Aborted(r)
               /\ ErrorShown(r, "Failed to get staged changes")
               /\ EventsAt(r, "fetch") = {}
        /\ (GitRan(r) /\ ~r.git.error /\ r.git.stdoutLen = 0) =>
               /\ Aborted(r)
               /\ ErrorShown(r, "Changesets AI: No staged changes found. Please git add your changes first.")
               /\ EventsAt(r, "fetch") = {}

\* git succeeded with no output and the run ended before any request
C28_Witness ==
    \E p \in Procs :
        /\ GitRan(run[p])
        /\ run[p].git = GitOutcome(FALSE, "none", 0, 0)
        /\ Aborted(run[p])

StatusDigits(status) ==
    CASE status = 404 -> <<"4", "0", "4">>
      [] status = 429 -> <<"4", "2", "9">>
      [] status = 500 -> <<"5", "0", "0">>

\* C29: an answer with status 404, 429 or 500 ends the AI call: the error
\* shown names the status, there is no suggestion and nothing is written.
C29_OtherStatusIsTerminal ==
    \A p \in Procs :
        run[p].status \in {404, 429, 500} =>
            /\ run[p].pc = "done"
            /\ AiErrors(run[p]) = {<<"API request failed with status ${status}",
                                     StatusDigits(run[p].status)>>}
            /\ NoSuggestion(run[p])
            /\ NothingWritten(run[p])

\* the endpoint answered 429
C29_Witness ==
    \E p \in Procs :
        /\ run[p].status = 429
        /\ run[p].pc = "done"
        /\ AiErrors(run[p]) # {}

EmptyChangeset == <<"-","-","-","\n","-","-","-","\n","\n","\n">>

\* C30: an empty summary ends the manual workflow without a file, makes the
\* AI reply rejected, and in the empty workflow gives a file with no package
\* line; no other workflow writes a file with an empty summary.
C30_EmptySummaryOnlyInEmptyWorkflow ==
    \A p \in Procs :
        LET r == run[p] IN
        /\ (r.type = "manual" /\ r.summaryInput = Str(<<>>)) => Aborted(r)
        /\ (r.type = "ai" /\ r.reply.kind = "json"
                /\ r.reply.parsed.summary = Str(<<>>)) =>
               (Aborted(r) /\ NoSuggestion(r) /\ AiErrors(r) # {})
        /\ (r.type = "empty" /\ r.summaryInput = Str(<<>>)) =>
               /\ r.pc \in {"createChangesetFile", "done"}
               /\ (r.pc = "done" /\ ~WriteThrew(r)) =>
                      (Len(r.written) = 1 /\ r.written[1].content = EmptyChangeset)
        /\ \A i \in 1..Len(r.written) :
               r.written[i].content[Len(r.written[i].content) - 1] = "\n"
                   => r.type = "empty"

\* the empty workflow has written a file for an empty summary
C30_Witness ==
    \E p \in Procs :
        /\ run[p].type = "empty"
        /\ run[p].summaryInput = Str(<<>>)
        /\ Len(run[p].written) = 1
        /\ run[p].written[1].content = EmptyChangeset

----------------------------------------------------------------------------
(* Properties of the runs: the credential, the packages written, the end
   of a run *)

\* what the run wrote to the console or showed to the user
Shown(r) ==
    SelectSeq(r.trace, LAMBDA ev : ev.e \in {"console.error", "showErrorMessage",
                                            "showInformationMessage"})
Contains(s, sub) ==
    \E i \in 0..(Len(s) - Len(sub)) : SubSeq(s, i + 1, i + Len(sub)) = sub

C33_DeletedOnlyOnAuthFailure ==
    \A p \in Procs :
        (HasEvent(run[p], "fetch") /\ run[p].status \notin {401, 403}) =>
            /\ secrets = run[p].apiKey
            /\ ~HasEvent(run[p], "secrets.delete")

\* the string itself, untrimmed, matches ^[A-Za-z0-9]{20,100}$
MatchesKeyFormatExactly(s) ==
    /\ Len(s) >= 20
    /\ Len(s) <= 100
    /\ \A i \in 1..Len(s) : s[i] \in Alnum

\* C34: the stored credential is absent or is itself a string of 20 to 100
\* letters and digits, and every request is sent with such a string.
C34_StoredKeyMatchesFormat ==
    /\ secrets = JUndefined \/ (IsString(secrets) /\ MatchesKeyFormatExactly(secrets.s))
    /\ \A p \in Procs :
        \A i \in EventsAt(run[p], "fetch") :
            /\ MatchesKeyFormatExactly(run[p].trace[i].d)
            /\ run[p].trace[i].d = run[p].apiKey.s

\* C35: every package named in a written changeset file was returned by the
\* discovery of the run.
C35_WrittenPackagesWereDiscovered ==
    \A p \in Procs :
        run[p].written # <<>> =>
            \A i \in 1..Len(run[p].bumps) :
                \E j \in 1..Len(run[p].packages) :
                    run[p].packages[j].name = run[p].bumps[i].k

\* the run has shown the notice of a cancelled prompt
CancelledShown(r) == \E i \in 1..Len(r.trace) : r.trace[i] = Cancelled

C38_IdHasFiveCharacters ==
    \A p \in Procs :
        \A i \in 1..Len(run[p].written) :
            /\ IsChangesetFilePath(run[p].written[i].path)
            /\ Len(run[p].written[i].path) = Len(ChangesetFilePrefix) + DefaultIdLength + 3

----------------------------------------------------------------------------
(* Properties of the reading of the reply text *)

\* C31: the text of a reply inside a fenced block, tagged json or not, is
\* read to the same outcome as the text alone: the same accepted bumps and
\* summary, or the same rejection.
C31_FencesAreTransparent ==
    call.op = "readReplyText" => call.ret.wrapped = call.ret.plain

\* a reply inside a block tagged json, with line breaks, was accepted with
\* its bumps and summary; so was one whose summary holds fence markers
C31_Witness ==
    /\ call.op = "readReplyText"
    /\ call.arg.tag = <<"j","s","o","n">>
    /\ call.arg.nl = <<"\n">>
    /\ call.ret.wrapped.ok
    /\ call.ret.wrapped.value.bumps.entries = <<Entry(PkgA, Str(patch))>>
    /\ call.ret.wrapped.value.summary = Str(<<"U","s","e"," ","x">>)
    /\ Contains(call.arg.text, Fence)

----------------------------------------------------------------------------
(* Properties of two runs on one secret store *)

\* C36 (as stated): a delete leaves in place a credential that is not the
\* one the run sent and that was stored after the request of the run was
\* sent (the store held another value, or none, at that moment).
C36_DeleteRemovesOnlyOwn ==
    [][\A p \in Procs :
          (/\ run[p].pc = "secrets.delete" /\ run'[p].pc # "secrets.delete"
           /\ secrets # JUndefined
           /\ secrets # run[p].apiKey
           /\ secrets # run[p].heldAtSend)
              => secrets' = secrets]_vars

\* C36: the delete removes whatever the store holds, the credential of the
\* run or one that another run has stored since: after every delete the
\* store is empty, so a second delete leaves it as the first did.
C36_DeleteEmptiesStore ==
    [][\A p \in Procs :
          (run[p].pc = "secrets.delete" /\ run'[p].pc # "secrets.delete")
              => secrets' = JUndefined]_vars

\* one run was refused and has deleted; the other, which had stored another
\* credential and has not deleted, has its request out with the store empty
C36_Witness ==
    \E p, q \in Procs :
        /\ run[p].pc = "done"
        /\ HasEvent(run[p], "secrets.delete")
        /\ HasEvent(run[q], "secrets.store")
        /\ ~HasEvent(run[q], "secrets.delete")
        /\ run[q].apiKey # run[p].apiKey
        /\ run[q].pc = "fetch"
        /\ run[p].heldAtSend = run[p].apiKey
        /\ secrets = JUndefined

====
